---- MODULE Spec2Model ----
(***************************************************************************)
(* cosmic::CosmicPCAxisTagger::produce                                     *)
(* (larana/CosmicRemoval/CosmicPCAxisTagger_module.cc).                    *)
(*                                                                         *)
(* One event is processed: the PFParticles are visited in order; for each  *)
(* one the best PCAxis is selected, the hits of its clusters are scanned   *)
(* for out-of-time hits, the space points are projected on the principal   *)
(* axis to find the end points, the end points are compared with the TPC   *)
(* boundaries, and a CosmicTag is emitted with its associations.           *)
(*                                                                         *)
(* Numbers.  Positions, times and eigenvalues are integers (the float and  *)
(* double conversions of the source are exact on them).  The score is kept *)
(* in tenths (0.4 -> 4, 0.5 -> 5, 1. -> 10).  Eigenvalues are perfect      *)
(* squares so that sqrt is exact.                                          *)
(***************************************************************************)
EXTENDS Integers, Sequences, FiniteSets, TLC

----------------------------------------------------------------------------
(* Bounds of the model.                                                    *)

MaxSpacePoints == 2

MaxHits == 2

MaxClusters == 2

MaxObjects == 2

----------------------------------------------------------------------------
(* Configuration: geometry, margins and drift window (constructor).        *)

fDetHalfHeight == 10

fDetWidth == 20

fDetLength == 30

fTPCXBoundary == 5

fTPCYBoundary == 5

fTPCZBoundary == 5

fDetectorWidthTicks == 10

(* Initial values of the arc length search, lines 255-256.                 *)
ArcLengthFirstInit == 9999

ArcLengthLastInit == -9999

----------------------------------------------------------------------------
(* anab::CosmicTagID_t values used by the module.                          *)

kNotTagged == "kNotTagged"

kOutsideDrift_Partial == "kOutsideDrift_Partial"

kGeometry_XX == "kGeometry_XX"

kGeometry_YY == "kGeometry_YY"

kGeometry_ZZ == "kGeometry_ZZ"

kGeometry_XY == "kGeometry_XY"

kGeometry_XZ == "kGeometry_XZ"

kGeometry_YZ == "kGeometry_YZ"

kGeometry_X == "kGeometry_X"

kGeometry_Y == "kGeometry_Y"

kGeometry_Z == "kGeometry_Z"

----------------------------------------------------------------------------
(* TVector3 arithmetic.                                                    *)

VAdd(a, b) == <<a[1] + b[1], a[2] + b[2], a[3] + b[3]>>

VSub(a, b) == <<a[1] - b[1], a[2] - b[2], a[3] - b[3]>>

VScale(k, a) == <<k * a[1], k * a[2], k * a[3]>>

Dot(a, b) == a[1] * b[1] + a[2] * b[2] + a[3] * b[3]

(* sqrt on the perfect squares the eigenvalues are drawn from.             *)
Sqrt(n) == CHOOSE r \in 0..n : r * r = n

----------------------------------------------------------------------------
(* The pure parts of produce.                                              *)

(* Variant: the test without its second disjunct.                          *)
OutOfTimeEarlyOnly(hit) == hit.PeakTimeMinusRMS < fDetectorWidthTicks

(* Variant: the test without its first disjunct.                           *)
OutOfTimeLateOnly(hit) == hit.PeakTimePlusRMS > 2 * fDetectorWidthTicks

(* Lines 227-228: the out-of-time test of one hit.                         *)
OutOfTime(hit) ==
    \/ hit.PeakTimeMinusRMS < fDetectorWidthTicks
    \/ hit.PeakTimePlusRMS > 2 * fDetectorWidthTicks

(* Variant: the comparison with the margin is not strict.                  *)
NearXInclusive(x) == fDetWidth - x <= fTPCXBoundary \/ x <= fTPCXBoundary

(* Lines 296-299: proximity of an x coordinate to the x faces.             *)
NearX(x) == fDetWidth - x < fTPCXBoundary \/ x < fTPCXBoundary

(* Lines 303-308: proximity of a y coordinate to the y faces.              *)
NearY(y) == fDetHalfHeight - y < fTPCYBoundary \/ fDetHalfHeight + y < fTPCYBoundary

(* Lines 312-315: proximity of a z coordinate to the z faces.              *)
NearZ(z) == fDetLength - z < fTPCZBoundary \/ z < fTPCZBoundary

(* Lines 318-323.  bx, by, bz are the arrays nBdX, nBdY, nBdZ; index 1 is  *)
(* end point 1 (index 0 of the source) and index 2 is end point 2.         *)
exitEnd1(bx, by) == bx[1] \/ by[1]

exitEnd2(bx, by) == bx[2] \/ by[2]

exitEndZ1(bx, by, bz) == exitEnd1(bx, by) /\ bz[2]

(* Variant: the cross term of end point 2 is gated on end point 2.         *)
exitEndZ2OfEnd2(bx, by, bz) == exitEnd2(bx, by) /\ bz[1]

exitEndZ2(bx, by, bz) == exitEnd1(bx, by) /\ bz[1]

(* Variant: the second cross term is gated on end point 2.                 *)
EnterExitSymmetric(bx, by, bz) ==
    \/ exitEnd1(bx, by) /\ exitEnd2(bx, by)
    \/ exitEndZ1(bx, by, bz)
    \/ exitEnd2(bx, by) /\ bz[1]

(* Line 327: the entering-and-exiting condition.                           *)
EnterExit(bx, by, bz) ==
    \/ exitEnd1(bx, by) /\ exitEnd2(bx, by)
    \/ exitEndZ1(bx, by, bz)
    \/ exitEndZ2(bx, by, bz)

(* Variant: the x-z test comes before the x-y test.                        *)
EnterExitTagXZFirst(bx, by, bz) ==
    IF bx[1] /\ bx[2] THEN kGeometry_XX
    ELSE IF by[1] /\ by[2] THEN kGeometry_YY
    ELSE IF (bx[1] \/ bx[2]) /\ (bz[1] \/ bz[2]) THEN kGeometry_XZ
    ELSE IF (bx[1] \/ bx[2]) /\ (by[1] \/ by[2]) THEN kGeometry_XY
    ELSE kGeometry_YZ

(* Lines 329-338: the tag of an entering-and-exiting object.               *)
EnterExitTag(bx, by, bz) ==
    IF bx[1] /\ bx[2] THEN kGeometry_XX
    ELSE IF by[1] /\ by[2] THEN kGeometry_YY
    ELSE IF (bx[1] \/ bx[2]) /\ (by[1] \/ by[2]) THEN kGeometry_XY
    ELSE IF (bx[1] \/ bx[2]) /\ (bz[1] \/ bz[2]) THEN kGeometry_XZ
    ELSE kGeometry_YZ

(* Line 341.                                                               *)
EnterExitZ(bz) == bz[1] /\ bz[2]

(* Line 346.                                                               *)
OneEndOnly(bx, by, bz) == (bx[1] \/ by[1] \/ bz[1]) # (bx[2] \/ by[2] \/ bz[2])

(* Variant: the y flags are tested before the x flags.                     *)
OneEndTagYFirst(bx, by, bz, old) ==
    IF by[1] \/ by[2] THEN kGeometry_Y
    ELSE IF bx[1] \/ bx[2] THEN kGeometry_X
    ELSE IF bz[1] \/ bz[2] THEN kGeometry_Z
    ELSE old

(* Lines 348-353: the tag of an object with one end point at a boundary;   *)
(* old is the tag kept when none of the three tests holds.                 *)
OneEndTag(bx, by, bz, old) ==
    IF bx[1] \/ bx[2] THEN kGeometry_X
    ELSE IF by[1] \/ by[2] THEN kGeometry_Y
    ELSE IF bz[1] \/ bz[2] THEN kGeometry_Z
    ELSE old

(* Variant: the z-z test comes before the entering-and-exiting test.       *)
BoundaryDecisionZFirst(bx, by, bz, level, tag) ==
    IF bz[1] /\ bz[2]
    THEN [isCosmic |-> 3, tag_id |-> kGeometry_ZZ]
    ELSE IF EnterExit(bx, by, bz)
    THEN [isCosmic |-> 2, tag_id |-> EnterExitTag(bx, by, bz)]
    ELSE IF (bx[1] \/ by[1] \/ bz[1]) # (bx[2] \/ by[2] \/ bz[2])
    THEN [isCosmic |-> 4,
          tag_id |-> IF bx[1] \/ bx[2] THEN kGeometry_X
                     ELSE IF by[1] \/ by[2] THEN kGeometry_Y
                     ELSE kGeometry_Z]
    ELSE [isCosmic |-> level, tag_id |-> tag]

(* Lines 327-354: the boundary decision on the flags, from the level and   *)
(* tag held before it.                                                     *)
BoundaryDecision(bx, by, bz, level, tag) ==
    IF EnterExit(bx, by, bz)
    THEN [isCosmic |-> 2, tag_id |-> EnterExitTag(bx, by, bz)]
    ELSE IF EnterExitZ(bz)
    THEN [isCosmic |-> 3, tag_id |-> kGeometry_ZZ]
    ELSE IF OneEndOnly(bx, by, bz)
    THEN [isCosmic |-> 4, tag_id |-> OneEndTag(bx, by, bz, tag)]
    ELSE [isCosmic |-> level, tag_id |-> tag]

(* Variant: the special case of level 4 is missing.                        *)
CosmicScoreNoHalf(level) ==
    IF level = 3 THEN 4
    ELSE IF level > 0 THEN 10
    ELSE 0

(* Lines 367-373: the score of a level, in tenths.                         *)
CosmicScore(level) ==
    IF level = 3 THEN 4
    ELSE IF level = 4 THEN 5
    ELSE IF level > 0 THEN 10
    ELSE 0

(* Variant: a scale factor of 2.                                           *)
MaxArcLenTwo(axis) == 2 * Sqrt(axis.eigenValues[1])

(* Lines 184-185.                                                          *)
MaxArcLen(axis) == 3 * Sqrt(axis.eigenValues[1])

(* Lines 188-195: the end points derived from the axis alone.              *)
AxisStart(axis) == VSub(axis.avePosition, VScale(MaxArcLen(axis), axis.eigenVector0))

AxisEnd(axis) == VAdd(axis.avePosition, VScale(MaxArcLen(axis), axis.eigenVector0))

(* Variant: the second and the third eigenvalue are combined.              *)
TransRMS2SecondAndThird(axis) ==
    axis.eigenValues[2] * axis.eigenValues[2] + axis.eigenValues[3] * axis.eigenValues[3]

(* Lines 245-246: the square of transRMS (transRMS > 0 iff its square      *)
(* is > 0).                                                                *)
TransRMS2(axis) ==
    axis.eigenValues[2] * axis.eigenValues[2] + axis.eigenValues[2] * axis.eigenValues[2]

(* Variant: the transverse spread is not tested.                           *)
AxisUsableLengthOnly(axis) == Sqrt(axis.eigenValues[1]) > 0

(* Variant: the transverse test reads the third eigenvalue.                *)
AxisUsableThird(axis) == Sqrt(axis.eigenValues[1]) > 0 /\ axis.eigenValues[3] # 0

(* Line 248.                                                               *)
AxisUsable(axis) == Sqrt(axis.eigenValues[1]) > 0 /\ TransRMS2(axis) > 0

(* Lines 259-261: the arc length of a space point along the axis.          *)
ArcLen(axis, pos) == Dot(VSub(pos, axis.avePosition), axis.eigenVector0)

(* Variant: the comparison of the IDs is not strict.                       *)
OrderAxesNonStrict(vec) ==
    IF Len(vec) > 1 /\ vec[1].ID >= vec[Len(vec)].ID
    THEN [i \in 1..Len(vec) |-> vec[Len(vec) + 1 - i]]
    ELSE vec

(* Lines 167-168: the axis vector after the ordering by ID.                *)
OrderAxes(vec) ==
    IF Len(vec) > 1 /\ vec[1].ID > vec[Len(vec)].ID
    THEN [i \in 1..Len(vec) |-> vec[Len(vec) + 1 - i]]
    ELSE vec

----------------------------------------------------------------------------
(* State.                                                                  *)
(*   evt          the event read by produce: the validity of the three     *)
(*                handles and of the space point association, the          *)
(*                PFParticles with their associations, the cluster         *)
(*                collection with the hits of each cluster                 *)
(*   pc           the position in produce                                  *)
(*   pfPartIdx    the index of the outer loop (0-based, as in the source)  *)
(*   pcAxisVec .. the locals of one pass of the outer loop; nBdX, nBdY and *)
(*                nBdZ are the flags of the two end points                 *)
(*   examined     the hits the test of lines 227-228 was evaluated on in   *)
(*                the current pass, in order: the position of the cluster  *)
(*                in clusterVec and of the hit in hitVec (0-based)         *)
(*   cosmicTagPFParticleVector, assnOut...  the three output collections   *)
(*   put          the products handed to the event by evt.put, in order    *)

VARIABLES evt, pc, pfPartIdx,
          pcAxisVec, isCosmic, tag_id, pcAxisStart, pcAxisEnd,
          trackEndPt1, trackEndPt2, nBdX, nBdY, nBdZ,
          clusterIdx, hitVec, hitIdx, examined,
          spIdx, arcLengthToFirstHit, arcLengthToLastHit,
          cosmicTagPFParticleVector, assnOutCosmicTagPFParticle,
          assnOutCosmicTagPCAxis, put

(* The state of pmtana::AlgoThreshold::RecoPulse                           *)
(* (src/OpticalDetector/AlgoThreshold.cxx, lines 40-121):                  *)
(*   wf           the waveform                                             *)
(*   ped_mean, ped_rms   the members _ped_mean and _ped_rms                *)
(*   threshold, fire, counter   the locals of RecoPulse                    *)
(*   pulse, pulse_v      the members _pulse and _pulse_v                   *)
(*   recoPulsePc  the position in RecoPulse                                *)

VARIABLES wf, ped_mean, ped_rms, threshold, fire, counter, pulse, pulse_v,
          recoPulsePc

recoPulseVars ==
    <<wf, ped_mean, ped_rms, threshold, fire, counter, pulse, pulse_v, recoPulsePc>>

(* The state of calo::TrackCalorimetryAlg::ExtractCalorimetry              *)
(* (src/unnamed/part_000, lines 21-72):                                    *)
(*   Nplanes      geom.Nplanes()                                           *)
(*   hitVector    the plane of each hit, hitVector[i].WireID().Plane       *)
(*   hit_indices_per_track   the indices of the hits of each track         *)
(*   i_track, i_plane        the loop indices (0-based, as in the source)  *)
(*   hit_indices_per_plane   the local of one pass of the loop over the    *)
(*                tracks                                                   *)
(*   analyzed     the calls of AnalyzeHit so far, in order: the track and  *)
(*                the hit index of each                                    *)
(*   caloPc       the position in ExtractCalorimetry                       *)

VARIABLES Nplanes, hitVector, hit_indices_per_track, i_track, i_plane,
          hit_indices_per_plane, analyzed, caloPc

caloVars ==
    <<Nplanes, hitVector, hit_indices_per_track, i_track, i_plane,
      hit_indices_per_plane, analyzed, caloPc>>

(* The state of the loop over the photons of one optical detector in       *)
(* opdet::SimPhotonCounter::analyze                                        *)
(* (src/OpticalDetector/AlgoThreshold.cxx, lines 560-662):                 *)
(*   IsBuildJob, StoreReflected   the answers of the visibility service    *)
(*   Reflected    the flag of the photon collection                        *)
(*   TheHit       the photons: the wavelength the detector response gives  *)
(*                for the energy of each, and whether it is detected       *)
(*   iPhot        the number of photons processed                          *)
(*   fWavelength, fCountOpDetDetected, fCountOpDetReflDetected             *)
(*                the members of the same names                            *)
(*   stored       the arguments of the call of storeVisibility, if any     *)
(*   photonPc     the position in the loop                                 *)

VARIABLES IsBuildJob, StoreReflected, Reflected, TheHit, iPhot, fWavelength,
          fCountOpDetDetected, fCountOpDetReflDetected, stored, photonPc

photonVars ==
    <<IsBuildJob, StoreReflected, Reflected, TheHit, iPhot, fWavelength,
      fCountOpDetDetected, fCountOpDetReflDetected, stored, photonPc>>

(* The state of the units other than produce.                              *)
otherUnits == <<recoPulseVars, caloVars, photonVars>>

locals == <<pcAxisVec, isCosmic, tag_id, pcAxisStart, pcAxisEnd,
            trackEndPt1, trackEndPt2, nBdX, nBdY, nBdZ>>

scan == <<clusterIdx, hitVec, hitIdx, examined>>

proj == <<spIdx, arcLengthToFirstHit, arcLengthToLastHit>>

outputs == <<cosmicTagPFParticleVector, assnOutCosmicTagPFParticle,
             assnOutCosmicTagPCAxis>>

(* The state of produce.                                                   *)
produceVars == <<evt, pc, pfPartIdx, locals, scan, proj, outputs, put>>

vars == <<produceVars, otherUnits>>

(* The PFParticle of the current pass, and its best axis (line 173).       *)
pfParticle == evt.pfParticles[pfPartIdx + 1]

pcAxis == pcAxisVec[1]

(* Line 237: the space points associated to the PFParticle.                *)
spacePointVec == pfParticle.spacePoints

(* Variant: the clusters of the whole collection.                          *)
clusterVecOfEvent == evt.clusters

(* Line 206: the clusters associated to the PFParticle (art::Ptr into the  *)
(* cluster collection).                                                    *)
clusterVec == [i \in 1..Len(pfParticle.clusters) |-> evt.clusters[pfParticle.clusters[i]]]

(* The value of the locals outside a pass of the outer loop.               *)
Origin == <<0, 0, 0>>

(* Lines 287-289.                                                          *)
NoFlags == <<FALSE, FALSE>>

NoLocals ==
    /\ pcAxisVec' = <<>>
    /\ isCosmic' = 0
    /\ tag_id' = kNotTagged
    /\ pcAxisStart' = Origin
    /\ pcAxisEnd' = Origin
    /\ trackEndPt1' = Origin
    /\ trackEndPt2' = Origin
    /\ nBdX' = NoFlags
    /\ nBdY' = NoFlags
    /\ nBdZ' = NoFlags
    /\ clusterIdx' = 0
    /\ hitVec' = <<>>
    /\ hitIdx' = 0
    /\ examined' = <<>>
    /\ spIdx' = 0
    /\ arcLengthToFirstHit' = ArcLengthFirstInit
    /\ arcLengthToLastHit' = ArcLengthLastInit

(* Variant: the axis associations are not handed over.                     *)
PutAllButAxisAssns ==
    put' = put \o << [product |-> "CosmicTags", value |-> cosmicTagPFParticleVector],
                     [product |-> "PFParticleAssns", value |-> assnOutCosmicTagPFParticle] >>

(* Lines 116-118, 132-134, 387-389: the three evt.put calls.               *)
PutAll ==
    put' = put \o << [product |-> "CosmicTags", value |-> cosmicTagPFParticleVector],
                     [product |-> "PFParticleAssns", value |-> assnOutCosmicTagPFParticle],
                     [product |-> "PCAxisAssns", value |-> assnOutCosmicTagPCAxis] >>

----------------------------------------------------------------------------
(* The steps of produce.                                                   *)

(* Lines 115-120.                                                          *)
InvalidPFParticle ==
    /\ pc = "start"
    /\ ~evt.pfValid
    /\ PutAll
    /\ pc' = "done"
    /\ UNCHANGED <<evt, otherUnits, pfPartIdx, locals, scan, proj, outputs>>

(* Lines 131-136.                                                          *)
InvalidAxisOrCluster ==
    /\ pc = "start"
    /\ evt.pfValid
    /\ ~evt.pcaxisValid \/ ~evt.clusterValid
    /\ PutAll
    /\ pc' = "done"
    /\ UNCHANGED <<evt, otherUnits, pfPartIdx, locals, scan, proj, outputs>>

(* Lines 138-153: the associations are recovered and the loop is entered.  *)
EnterLoop ==
    /\ pc = "start"
    /\ evt.pfValid /\ evt.pcaxisValid /\ evt.clusterValid
    /\ pc' = "loop"
    /\ UNCHANGED <<evt, otherUnits, pfPartIdx, locals, scan, proj, outputs, put>>

(* Variant: a PFParticle without axis ends the loop.                       *)
SkipObjectBreaks ==
    /\ pc = "loop"
    /\ pfPartIdx # Len(evt.pfParticles)
    /\ pfParticle.pcAxes = <<>>
    /\ pfPartIdx' = Len(evt.pfParticles)
    /\ UNCHANGED <<evt, otherUnits, pc, locals, scan, proj, outputs, put>>

(* Lines 157-160: a PFParticle without axis is skipped.                    *)
SkipObject ==
    /\ pc = "loop"
    /\ pfPartIdx # Len(evt.pfParticles)
    /\ pfParticle.pcAxes = <<>>
    /\ pfPartIdx' = pfPartIdx + 1
    /\ UNCHANGED <<evt, otherUnits, pc, locals, scan, proj, outputs, put>>

(* Lines 157-208: the best axis, the level and tag, the end points derived *)
(* from the axis.                                                          *)
BeginObject ==
    /\ pc = "loop"
    /\ pfPartIdx # Len(evt.pfParticles)
    /\ pfParticle.pcAxes # <<>>
    /\ LET vec == OrderAxes(pfParticle.pcAxes) IN
         /\ pcAxisVec' = vec
         /\ pcAxisStart' = AxisStart(vec[1])
         /\ pcAxisEnd' = AxisEnd(vec[1])
         /\ trackEndPt1' = AxisStart(vec[1])
         /\ trackEndPt2' = AxisEnd(vec[1])
    /\ isCosmic' = 0
    /\ tag_id' = kNotTagged
    /\ clusterIdx' = 0
    /\ examined' = <<>>
    /\ pc' = "clusters"
    /\ UNCHANGED <<evt, otherUnits, pfPartIdx, nBdX, nBdY, nBdZ, hitVec, hitIdx, proj, outputs, put>>

(* Line 213: clusterHitAssns.at(cluster->ID()), the hits of the element of *)
(* the cluster collection at index cluster->ID().                          *)
HitsAt(id) == evt.clusters[id + 1].hits

(* Lines 211-213: the next cluster, its hits recovered.                    *)
RecoverHits ==
    /\ pc = "clusters"
    /\ clusterIdx < Len(clusterVec)
    /\ clusterVec[clusterIdx + 1].ID \in 0..(Len(evt.clusters) - 1)
    /\ hitVec' = HitsAt(clusterVec[clusterIdx + 1].ID)
    /\ hitIdx' = 0
    /\ pc' = "hits"
    /\ UNCHANGED <<evt, otherUnits, pfPartIdx, locals, clusterIdx, examined, proj, outputs, put>>

(* Line 213: at() throws std::out_of_range when the cluster's ID is no     *)
(* index of the cluster collection; produce is left by the exception.      *)
RecoverHitsThrows ==
    /\ pc = "clusters"
    /\ clusterIdx < Len(clusterVec)
    /\ clusterVec[clusterIdx + 1].ID \notin 0..(Len(evt.clusters) - 1)
    /\ pc' = "threw"
    /\ UNCHANGED <<evt, otherUnits, pfPartIdx, locals, scan, proj, outputs, put>>

(* Lines 221-233: a hit in time, the scan of the cluster goes on.          *)
HitInTime ==
    /\ pc = "hits"
    /\ hitIdx < Len(hitVec)
    /\ ~OutOfTime(hitVec[hitIdx + 1])
    /\ hitIdx' = hitIdx + 1
    /\ examined' = Append(examined, [cluster |-> clusterIdx, hit |-> hitIdx])
    /\ UNCHANGED <<evt, otherUnits, pc, pfPartIdx, locals, clusterIdx, hitVec, proj, outputs, put>>

(* Variant: the hit out of time ends the scan of all the clusters.         *)
HitOutOfTimeAborts ==
    /\ pc = "hits"
    /\ hitIdx < Len(hitVec)
    /\ OutOfTime(hitVec[hitIdx + 1])
    /\ isCosmic' = 1
    /\ tag_id' = kOutsideDrift_Partial
    /\ clusterIdx' = Len(clusterVec)
    /\ hitVec' = <<>>
    /\ hitIdx' = 0
    /\ examined' = Append(examined, [cluster |-> clusterIdx, hit |-> hitIdx])
    /\ pc' = "clusters"
    /\ UNCHANGED <<evt, otherUnits, pfPartIdx, pcAxisVec, pcAxisStart, pcAxisEnd,
                   trackEndPt1, trackEndPt2, nBdX, nBdY, nBdZ, proj, outputs, put>>

(* Lines 227-232: a hit out of time, the scan of the cluster ends.         *)
HitOutOfTime ==
    /\ pc = "hits"
    /\ hitIdx < Len(hitVec)
    /\ OutOfTime(hitVec[hitIdx + 1])
    /\ isCosmic' = 1
    /\ tag_id' = kOutsideDrift_Partial
    /\ clusterIdx' = clusterIdx + 1
    /\ hitVec' = <<>>
    /\ hitIdx' = 0
    /\ examined' = Append(examined, [cluster |-> clusterIdx, hit |-> hitIdx])
    /\ pc' = "clusters"
    /\ UNCHANGED <<evt, otherUnits, pfPartIdx, pcAxisVec, pcAxisStart, pcAxisEnd,
                   trackEndPt1, trackEndPt2, nBdX, nBdY, nBdZ, proj, outputs, put>>

(* Lines 221, 233-234: the hits of the cluster are exhausted.              *)
HitsDone ==
    /\ pc = "hits"
    /\ hitIdx = Len(hitVec)
    /\ clusterIdx' = clusterIdx + 1
    /\ hitVec' = <<>>
    /\ hitIdx' = 0
    /\ pc' = "clusters"
    /\ UNCHANGED <<evt, otherUnits, pfPartIdx, locals, examined, proj, outputs, put>>

(* Lines 142-143, 237: spacePointAssnVec is built without a test of its    *)
(* validity; at() on a FindManyP that found no association throws, and     *)
(* produce is left by the exception.                                       *)
RecoverSpacePointsThrows ==
    /\ pc = "clusters"
    /\ clusterIdx = Len(clusterVec)
    /\ ~evt.spacePointAssnValid
    /\ pc' = "threw"
    /\ UNCHANGED <<evt, otherUnits, pfPartIdx, locals, scan, proj, outputs, put>>

(* Variant: the level is not tested.                                       *)
ProjectorRunsFlagged(level, spv, axis) == spv # <<>> /\ AxisUsable(axis)

(* Line 242 with line 248: the condition under which the space points are  *)
(* projected and the boundaries checked.                                   *)
ProjectorRuns(level, spv, axis) == level = 0 /\ spv # <<>> /\ AxisUsable(axis)

(* Lines 236-256: the clusters are exhausted, the projection starts.       *)
StartProjection ==
    /\ pc = "clusters"
    /\ clusterIdx = Len(clusterVec)
    /\ evt.spacePointAssnValid
    /\ ProjectorRuns(isCosmic, spacePointVec, pcAxis)
    /\ arcLengthToFirstHit' = ArcLengthFirstInit
    /\ arcLengthToLastHit' = ArcLengthLastInit
    /\ spIdx' = 0
    /\ pc' = "project"
    /\ UNCHANGED <<evt, otherUnits, pfPartIdx, locals, scan, outputs, put>>

(* Lines 242, 248, 356: the boundary check is skipped.                     *)
SkipProjection ==
    /\ pc = "clusters"
    /\ clusterIdx = Len(clusterVec)
    /\ evt.spacePointAssnValid
    /\ ~ProjectorRuns(isCosmic, spacePointVec, pcAxis)
    /\ pc' = "emit"
    /\ UNCHANGED <<evt, otherUnits, pfPartIdx, locals, scan, proj, outputs, put>>

(* Lines 263-266: the arc length and position of the first hit after a     *)
(* space point at arc length arc and position pos.                         *)
FirstHit(arc, pos, best, start) ==
    IF arc < best THEN [arcLength |-> arc, position |-> pos]
    ELSE [arcLength |-> best, position |-> start]

(* Lines 268-271: the same for the last hit.                               *)
LastHit(arc, pos, best, end) ==
    IF arc > best THEN [arcLength |-> arc, position |-> pos]
    ELSE [arcLength |-> best, position |-> end]

(* Lines 259-271: the body of the loop over the space points; acc holds    *)
(* arcLengthToFirstHit, pcAxisStart, arcLengthToLastHit and pcAxisEnd.     *)
ProjectStep(axis, pos, acc) ==
    LET arcLenToHit == ArcLen(axis, pos)
        first == FirstHit(arcLenToHit, pos, acc.first, acc.start)
        last == LastHit(arcLenToHit, pos, acc.last, acc.end)
    IN [first |-> first.arcLength, start |-> first.position,
        last |-> last.arcLength, end |-> last.position]

(* Lines 255-272: the whole loop over the space points spv, started from   *)
(* the end points derived from the axis.                                   *)
RECURSIVE Project(_, _)
Project(axis, spv) ==
    IF spv = <<>>
    THEN [first |-> ArcLengthFirstInit, start |-> AxisStart(axis),
          last |-> ArcLengthLastInit, end |-> AxisEnd(axis)]
    ELSE ProjectStep(axis, spv[Len(spv)], Project(axis, SubSeq(spv, 1, Len(spv) - 1)))

(* Lines 258-272: one space point.                                         *)
ProjectPoint ==
    /\ pc = "project"
    /\ spIdx < Len(spacePointVec)
    /\ LET acc == ProjectStep(pcAxis, spacePointVec[spIdx + 1],
                              [first |-> arcLengthToFirstHit, start |-> pcAxisStart,
                               last |-> arcLengthToLastHit, end |-> pcAxisEnd])
       IN /\ arcLengthToFirstHit' = acc.first
          /\ pcAxisStart' = acc.start
          /\ arcLengthToLastHit' = acc.last
          /\ pcAxisEnd' = acc.end
    /\ spIdx' = spIdx + 1
    /\ UNCHANGED <<evt, otherUnits, pc, pfPartIdx, pcAxisVec, isCosmic, tag_id,
                   trackEndPt1, trackEndPt2, nBdX, nBdY, nBdZ, scan, outputs, put>>

(* Lines 274-354: the end points are taken from the projection and         *)
(* compared with the boundaries.                                           *)
CheckBoundaries ==
    /\ pc = "project"
    /\ spIdx = Len(spacePointVec)
    /\ trackEndPt1' = pcAxisStart
    /\ trackEndPt2' = pcAxisEnd
    /\ LET bx == <<NearX(pcAxisStart[1]), NearX(pcAxisEnd[1])>>
           by == <<NearY(pcAxisStart[2]), NearY(pcAxisEnd[2])>>
           bz == <<NearZ(pcAxisStart[3]), NearZ(pcAxisEnd[3])>>
           d == BoundaryDecision(bx, by, bz, isCosmic, tag_id)
       IN /\ nBdX' = bx
          /\ nBdY' = by
          /\ nBdZ' = bz
          /\ isCosmic' = d.isCosmic
          /\ tag_id' = d.tag_id
    /\ pc' = "emit"
    /\ UNCHANGED <<evt, otherUnits, pfPartIdx, pcAxisVec, pcAxisStart, pcAxisEnd,
                   scan, proj, outputs, put>>

(* Lines 358-376: the CosmicTag of the PFParticle.                         *)
MakeTag(endPt1, endPt2, level, tag) ==
    [endPt1 |-> endPt1, endPt2 |-> endPt2,
     cosmicScore |-> CosmicScore(level), tag_id |-> tag]

(* Variant: only the best axis is associated to the tag.                   *)
EmitTagBestAxisOnly ==
    /\ pc = "emit"
    /\ LET tags == Append(cosmicTagPFParticleVector,
                          MakeTag(trackEndPt1, trackEndPt2, isCosmic, tag_id))
       IN /\ cosmicTagPFParticleVector' = tags
          /\ assnOutCosmicTagPFParticle' =
                Append(assnOutCosmicTagPFParticle,
                       [pfParticle |-> pfPartIdx, tag |-> Len(tags) - 1])
          /\ assnOutCosmicTagPCAxis' =
                Append(assnOutCosmicTagPCAxis, [pcAxis |-> pcAxis, tag |-> Len(tags) - 1])
    /\ NoLocals
    /\ pfPartIdx' = pfPartIdx + 1
    /\ pc' = "loop"
    /\ UNCHANGED <<evt, otherUnits, put>>

(* Lines 358-385: the tag is stored and associated to the PFParticle and   *)
(* to each of its axes (util::CreateAssn associates the last element of    *)
(* the tag vector); the pass ends.                                         *)
EmitTag ==
    /\ pc = "emit"
    /\ LET tags == Append(cosmicTagPFParticleVector,
                          MakeTag(trackEndPt1, trackEndPt2, isCosmic, tag_id))
       IN /\ cosmicTagPFParticleVector' = tags
          /\ assnOutCosmicTagPFParticle' =
                Append(assnOutCosmicTagPFParticle,
                       [pfParticle |-> pfPartIdx, tag |-> Len(tags) - 1])
          /\ assnOutCosmicTagPCAxis' =
                assnOutCosmicTagPCAxis \o
                [i \in 1..Len(pcAxisVec) |-> [pcAxis |-> pcAxisVec[i], tag |-> Len(tags) - 1]]
    /\ NoLocals
    /\ pfPartIdx' = pfPartIdx + 1
    /\ pc' = "loop"
    /\ UNCHANGED <<evt, otherUnits, put>>

(* Lines 153, 387-390: the loop is over, the outputs are handed over.      *)
PutOutputs ==
    /\ pc = "loop"
    /\ pfPartIdx = Len(evt.pfParticles)
    /\ PutAll
    /\ pc' = "done"
    /\ UNCHANGED <<evt, otherUnits, pfPartIdx, locals, scan, proj, outputs>>

Next ==
    \/ InvalidPFParticle
    \/ InvalidAxisOrCluster
    \/ EnterLoop
    \/ SkipObject
    \/ BeginObject
    \/ RecoverHits
    \/ RecoverHitsThrows
    \/ HitInTime
    \/ HitOutOfTime
    \/ HitsDone
    \/ RecoverSpacePointsThrows
    \/ StartProjection
    \/ SkipProjection
    \/ ProjectPoint
    \/ CheckBoundaries
    \/ EmitTag
    \/ PutOutputs

----------------------------------------------------------------------------
(* The events produce is run on.                                           *)

SeqsUpTo(S, n) == UNION {[1..k -> S] : k \in 0..n}

Hit(minus, plus) == [PeakTimeMinusRMS |-> minus, PeakTimePlusRMS |-> plus]

(* A hit exactly on both limits of the window, one that starts before the  *)
(* window and one that ends after it.                                      *)
InTimeHit == Hit(fDetectorWidthTicks, 2 * fDetectorWidthTicks)

EarlyHit == Hit(fDetectorWidthTicks - 1, fDetectorWidthTicks + 1)

LateHit == Hit(2 * fDetectorWidthTicks - 1, 2 * fDetectorWidthTicks + 1)

Hits == {InTimeHit, EarlyHit, LateHit}

Axis(id, ave, eig, dir) ==
    [ID |-> id, avePosition |-> ave, eigenValues |-> eig, eigenVector0 |-> dir]

Centre == <<10, 0, 15>>

(* Eigenvalue triples: a usable axis, one with another third eigenvalue,   *)
(* one without transverse spread, one without length.                      *)
EigenValues == {<<4, 1, 0>>, <<4, 1, 1>>, <<4, 0, 1>>, <<0, 1, 0>>}

(* Principal directions along the detector axes.                           *)
Directions ==
    {<<1, 0, 0>>, <<0, 1, 0>>, <<0, 0, 1>>, <<-1, 0, 0>>, <<0, -1, 0>>, <<0, 0, -1>>}

(* Space points: every combination of near and far from a face in x, y    *)
(* and z; points at exactly the margin from a face, past the margin, and   *)
(* outside the detector.                                                   *)
CornerPoints == {<<x, y, z>> : x \in {4, 10}, y \in {-6, 0}, z \in {4, 15}}

EdgePoints ==
    {<<5, 0, 15>>, <<15, 0, 15>>, <<16, 0, 15>>, <<21, 0, 15>>,
     <<10, -5, 15>>, <<10, 5, 15>>, <<10, 6, 15>>,
     <<10, 0, 5>>, <<10, 0, 25>>, <<10, 0, 26>>}

(* The points of the first set with a point within the margin of the far   *)
(* face in x, in y and in z.                                               *)
GeometryPoints == CornerPoints \cup {<<16, 0, 15>>, <<10, 6, 15>>, <<10, 0, 26>>}

(* Two points near the face x = 0 only and two near the lower y face only. *)
SameFacePoints == {<<2, 0, 15>>, <<4, 0, 15>>, <<10, -6, 15>>, <<10, -8, 15>>}

(* Space points far from the detector along z, two of them at the same z,  *)
(* with two inside it.                                                     *)
FarPoints ==
    {<<10, 0, 10015>>, <<10, 0, -9985>>, <<4, 0, -9985>>, <<10, 0, 4>>, <<10, 0, 15>>}

PFParticle(axes, clusters, points) ==
    [pcAxes |-> axes, clusters |-> clusters, spacePoints |-> points]

Event(pfv, axv, clv, pfps, clusters) ==
    [pfValid |-> pfv, pcaxisValid |-> axv, clusterValid |-> clv,
     spacePointAssnValid |-> TRUE,
     pfParticles |-> pfps, clusters |-> clusters]

Cluster(id, hits) == [ID |-> id, hits |-> hits]

UsableAxis(d) == Axis(0, Centre, <<4, 1, 0>>, d)

(* One PFParticle with a usable axis, no cluster and any space points near *)
(* and far from the faces.                                                 *)
GeometryEvent(e) ==
    \E d \in Directions, n \in 0..MaxSpacePoints :
      \E sp \in [1..n -> GeometryPoints] :
        e = Event(TRUE, TRUE, TRUE, <<PFParticle(<<UsableAxis(d)>>, <<>>, sp)>>, <<>>)

(* The same with space points at, past and outside the margins.            *)
EdgeEvent(e) ==
    \E d \in {<<1, 0, 0>>, <<0, 1, 0>>, <<0, 0, 1>>}, n \in 1..MaxSpacePoints :
      \E sp \in [1..n -> EdgePoints] :
        e = Event(TRUE, TRUE, TRUE, <<PFParticle(<<UsableAxis(d)>>, <<>>, sp)>>, <<>>)

(* The same with space points near one face, along x and along y.          *)
SameFaceEvent(e) ==
    \E d \in {<<1, 0, 0>>, <<0, 1, 0>>}, n \in 1..MaxSpacePoints :
      \E sp \in [1..n -> SameFacePoints] :
        e = Event(TRUE, TRUE, TRUE, <<PFParticle(<<UsableAxis(d)>>, <<>>, sp)>>, <<>>)

(* The same with space points far along the axis.                          *)
FarEvent(e) ==
    \E d \in {<<0, 0, 1>>, <<0, 0, -1>>}, n \in 1..MaxSpacePoints :
      \E sp \in [1..n -> FarPoints] :
        e = Event(TRUE, TRUE, TRUE, <<PFParticle(<<UsableAxis(d)>>, <<>>, sp)>>, <<>>)

(* One PFParticle with a usable axis, one cluster of one hit, and space    *)
(* points near and far from the faces.                                     *)
FlaggedEvent(e) ==
    \E d \in {<<1, 0, 0>>, <<0, 0, 1>>}, h \in Hits, n \in 0..MaxSpacePoints :
      \E sp \in [1..n -> CornerPoints] :
        e = Event(TRUE, TRUE, TRUE,
                  <<PFParticle(<<UsableAxis(d)>>, <<1>>, sp)>>, <<Cluster(0, <<h>>)>>)

(* Two axes with the IDs first and second: the first one along y and      *)
(* without transverse spread, the second one along x and usable.           *)
AxisPair(first, second) ==
    <<Axis(first, Centre, <<4, 0, 1>>, <<0, 1, 0>>),
      Axis(second, Centre, <<4, 1, 0>>, <<1, 0, 0>>)>>

(* Zero to two axes, usable or not; the IDs of two axes descend, ascend or *)
(* are equal.                                                              *)
AxisVectors ==
    {<<>>} \cup {<<Axis(0, Centre, ev, <<1, 0, 0>>)>> : ev \in EigenValues}
    \cup {AxisPair(5, 3), AxisPair(3, 5), AxisPair(3, 3)}

(* Space points at both x faces, or none.                                  *)
FacePoints == {<<>>, << <<4, 0, 15>>, <<16, 0, 15>> >>}

(* One PFParticle with one cluster of any hits.                            *)
ClusterEvent(e) ==
    \E axes \in AxisVectors, sp \in FacePoints, n \in 0..MaxHits :
      \E hs \in [1..n -> Hits] :
        e = Event(TRUE, TRUE, TRUE, <<PFParticle(axes, <<1>>, sp)>>, <<Cluster(0, hs)>>)

(* The IDs of the clusters of a collection of n clusters: the index, the   *)
(* index from the end, the index plus one.                                 *)
ClusterIDs(n) ==
    {[i \in 1..n |-> i - 1], [i \in 1..n |-> n - i], [i \in 1..n |-> i]}

(* One PFParticle with all the clusters of a collection of two or more, of *)
(* at most two hits each.                                                  *)
TimingEvent(e) ==
    \E n \in 2..MaxClusters :
      \E hs \in [1..n -> SeqsUpTo({InTimeHit, EarlyHit}, 2)], ids \in ClusterIDs(n) :
        e = Event(TRUE, TRUE, TRUE,
                  <<PFParticle(<<UsableAxis(<<1, 0, 0>>)>>, [i \in 1..n |-> i],
                               << <<4, 0, 15>>, <<16, 0, 15>> >>)>>,
                  [i \in 1..n |-> Cluster(ids[i], hs[i])])

(* An event with a handle that is not valid; the PFParticle collection, if *)
(* there is one, is empty or holds one PFParticle.                         *)
InvalidEvent(e) ==
    \E pfv \in BOOLEAN, axv \in BOOLEAN, clv \in BOOLEAN, n \in 0..1 :
        /\ ~(pfv /\ axv /\ clv)
        /\ pfv \/ n = 0
        /\ e = Event(pfv, axv, clv,
                     [i \in 1..n |-> PFParticle(<<UsableAxis(<<1, 0, 0>>)>>, <<>>,
                                                << <<4, 0, 15>>, <<16, 0, 15>> >>)],
                     <<>>)

(* An event without the association of space points to PFParticles: no     *)
(* PFParticle, or one with zero to two axes and one cluster of one hit.    *)
NoSpacePointAssnEvent(e) ==
    \/ e = [Event(TRUE, TRUE, TRUE, <<>>, <<>>) EXCEPT !.spacePointAssnValid = FALSE]
    \/ \E axes \in AxisVectors, h \in Hits :
         e = [Event(TRUE, TRUE, TRUE, <<PFParticle(axes, <<1>>, <<>>)>>,
                    <<Cluster(0, <<h>>)>>)
              EXCEPT !.spacePointAssnValid = FALSE]

(* The axes of a PFParticle of an event of several: none, one usable axis, *)
(* the same with another third eigenvalue, two axes.                       *)
ObjectAxes ==
    {<<>>, <<UsableAxis(<<1, 0, 0>>)>>, <<Axis(0, Centre, <<4, 1, 1>>, <<1, 0, 0>>)>>,
     AxisPair(5, 3)}

(* Two or more PFParticles, each with its own cluster of one hit, in or    *)
(* out of time; all of them with space points at both x faces, or none.    *)
MultiEvent(e) ==
    \E n \in 2..MaxObjects :
      \E ax \in [1..n -> ObjectAxes], hs \in [1..n -> {InTimeHit, EarlyHit}],
         sp \in FacePoints :
        e = Event(TRUE, TRUE, TRUE,
                  [i \in 1..n |-> PFParticle(ax[i], <<i>>, sp)],
                  [i \in 1..n |-> Cluster(i - 1, <<hs[i]>>)])

(* The other units before they are run.                                    *)
RecoPulseAtRest ==
    /\ wf = <<>>
    /\ ped_mean = 0
    /\ ped_rms = 0
    /\ threshold = 0
    /\ fire = FALSE
    /\ counter = 0
    /\ pulse = [peak |-> -1, area |-> 0, t_start |-> -1, t_max |-> -1, t_end |-> -1]
    /\ pulse_v = <<>>
    /\ recoPulsePc = "idle"

CalorimetryAtRest ==
    /\ Nplanes = 0
    /\ hitVector = <<>>
    /\ hit_indices_per_track = <<>>
    /\ i_track = 0
    /\ i_plane = 0
    /\ hit_indices_per_plane = <<>>
    /\ analyzed = <<>>
    /\ caloPc = "idle"

PhotonCounterAtRest ==
    /\ IsBuildJob = FALSE
    /\ StoreReflected = FALSE
    /\ Reflected = FALSE
    /\ TheHit = <<>>
    /\ iPhot = 0
    /\ fWavelength = 0
    /\ fCountOpDetDetected = 0
    /\ fCountOpDetReflDetected = 0
    /\ stored = <<>>
    /\ photonPc = "idle"

Init ==
    /\ \/ GeometryEvent(evt)
       \/ EdgeEvent(evt)
       \/ SameFaceEvent(evt)
       \/ FarEvent(evt)
       \/ FlaggedEvent(evt)
       \/ ClusterEvent(evt)
       \/ TimingEvent(evt)
       \/ InvalidEvent(evt)
       \/ NoSpacePointAssnEvent(evt)
       \/ MultiEvent(evt)
    /\ pc = "start"
    /\ pfPartIdx = 0
    /\ pcAxisVec = <<>>
    /\ isCosmic = 0
    /\ tag_id = kNotTagged
    /\ pcAxisStart = Origin
    /\ pcAxisEnd = Origin
    /\ trackEndPt1 = Origin
    /\ trackEndPt2 = Origin
    /\ nBdX = NoFlags
    /\ nBdY = NoFlags
    /\ nBdZ = NoFlags
    /\ clusterIdx = 0
    /\ hitVec = <<>>
    /\ hitIdx = 0
    /\ examined = <<>>
    /\ spIdx = 0
    /\ arcLengthToFirstHit = ArcLengthFirstInit
    /\ arcLengthToLastHit = ArcLengthLastInit
    /\ cosmicTagPFParticleVector = <<>>
    /\ assnOutCosmicTagPFParticle = <<>>
    /\ assnOutCosmicTagPCAxis = <<>>
    /\ put = <<>>
    /\ RecoPulseAtRest
    /\ CalorimetryAtRest
    /\ PhotonCounterAtRest

Spec == Init /\ [][Next]_vars

(* produce before it is run, on an event without PFParticles.              *)
ProduceAtRest ==
    /\ evt = Event(TRUE, TRUE, TRUE, <<>>, <<>>)
    /\ pc = "idle"
    /\ pfPartIdx = 0
    /\ pcAxisVec = <<>>
    /\ isCosmic = 0
    /\ tag_id = kNotTagged
    /\ pcAxisStart = Origin
    /\ pcAxisEnd = Origin
    /\ trackEndPt1 = Origin
    /\ trackEndPt2 = Origin
    /\ nBdX = NoFlags
    /\ nBdY = NoFlags
    /\ nBdZ = NoFlags
    /\ clusterIdx = 0
    /\ hitVec = <<>>
    /\ hitIdx = 0
    /\ examined = <<>>
    /\ spIdx = 0
    /\ arcLengthToFirstHit = ArcLengthFirstInit
    /\ arcLengthToLastHit = ArcLengthLastInit
    /\ cosmicTagPFParticleVector = <<>>
    /\ assnOutCosmicTagPFParticle = <<>>
    /\ assnOutCosmicTagPCAxis = <<>>
    /\ put = <<>>

----------------------------------------------------------------------------
(* pmtana::AlgoThreshold::RecoPulse.                                       *)

(* Bound: the number of samples of a waveform.                             *)
MaxSamples == 4

(* Lines 19, 21: the values the constructor sets.                          *)
adc_thres == 3

nsigma == 5

(* pulse_param::reset_param.                                               *)
ResetParam == [peak |-> -1, area |-> 0, t_start |-> -1, t_max |-> -1, t_end |-> -1]

(* PMTPulseRecoBase::Reset, called at lines 36 and 51.                     *)
Reset ==
    /\ pulse' = ResetParam
    /\ pulse_v' = <<>>

(* Lines 47-49.                                                            *)
Threshold(mean, rms) ==
    (IF adc_thres > nsigma * rms THEN adc_thres ELSE nsigma * rms) + mean

(* Line 56: the comparison that starts a pulse.                            *)
StartsPulse(value, thr) == value >= thr

(* Line 72: the last sample of a pulse that ends at the sample c.          *)
EndOfPulse(c) == c - 1

(* Lines 53-99: the body of the loop for the sample value at the index c;  *)
(* st holds fire, _pulse and _pulse_v.                                     *)
SampleStep(value, c, thr, mean, st) ==
    LET started ==
            IF ~st.fire /\ StartsPulse(value, thr)
            THEN [st EXCEPT !.fire = TRUE, !.pulse.t_start = c]
            ELSE st
        ended ==
            IF started.fire /\ value < thr
            THEN [fire |-> FALSE,
                  pulse_v |-> Append(started.pulse_v,
                                     [started.pulse EXCEPT !.t_end = EndOfPulse(c)]),
                  pulse |-> ResetParam]
            ELSE started
        added == [ended.pulse EXCEPT !.area = @ + (value - mean)]
    IN IF ended.fire
       THEN [ended EXCEPT !.pulse =
                IF added.peak < value - mean
                THEN [added EXCEPT !.peak = value - mean, !.t_max = c]
                ELSE added]
       ELSE ended

(* Lines 43-51: the locals are set, the result of an earlier call is       *)
(* dropped.                                                                *)
RecoPulseEnter ==
    /\ recoPulsePc = "entry"
    /\ fire' = FALSE
    /\ counter' = 0
    /\ threshold' = Threshold(ped_mean, ped_rms)
    /\ Reset
    /\ recoPulsePc' = "loop"
    /\ UNCHANGED <<wf, ped_mean, ped_rms, produceVars, caloVars, photonVars>>

(* Lines 53-99: one sample.                                                *)
RecoPulseSample ==
    /\ recoPulsePc = "loop"
    /\ counter < Len(wf)
    /\ LET st == SampleStep(wf[counter + 1], counter, threshold, ped_mean,
                            [fire |-> fire, pulse |-> pulse, pulse_v |-> pulse_v])
       IN /\ fire' = st.fire
          /\ pulse' = st.pulse
          /\ pulse_v' = st.pulse_v
    /\ counter' = counter + 1
    /\ UNCHANGED <<wf, ped_mean, ped_rms, threshold, recoPulsePc,
                   produceVars, caloVars, photonVars>>

(* Variant: a pulse that did not finish within the waveform is dropped.    *)
RecoPulseReturnDropsOpen ==
    /\ recoPulsePc = "loop"
    /\ counter = Len(wf)
    /\ fire' = FALSE
    /\ pulse' = IF fire THEN ResetParam ELSE pulse
    /\ recoPulsePc' = "returned"
    /\ UNCHANGED <<wf, ped_mean, ped_rms, threshold, counter, pulse_v,
                   produceVars, caloVars, photonVars>>

(* Lines 101-119: the end of the waveform; a pulse that did not finish is  *)
(* stored.                                                                 *)
RecoPulseReturn ==
    /\ recoPulsePc = "loop"
    /\ counter = Len(wf)
    /\ IF fire
       THEN /\ fire' = FALSE
            /\ pulse_v' = Append(pulse_v, [pulse EXCEPT !.t_end = counter - 1])
            /\ pulse' = ResetParam
       ELSE UNCHANGED <<fire, pulse, pulse_v>>
    /\ recoPulsePc' = "returned"
    /\ UNCHANGED <<wf, ped_mean, ped_rms, threshold, counter,
                   produceVars, caloVars, photonVars>>

NextRecoPulse ==
    \/ RecoPulseEnter
    \/ RecoPulseSample
    \/ RecoPulseReturn

(* Samples below, at and above the thresholds 3, 5 and 7.                  *)
Samples == {2, 3, 5, 7}

PedMeans == {0, 2}

PedRMSs == {0, 1}

(* The pulses an earlier call has left in _pulse_v.                        *)
EarlierPulses ==
    {<<>>, <<[peak |-> 5, area |-> 8, t_start |-> 0, t_max |-> 1, t_end |-> 1]>>}

(* RecoPulse is called on an object that has or has not been used before.  *)
InitRecoPulse ==
    /\ wf \in SeqsUpTo(Samples, MaxSamples)
    /\ ped_mean \in PedMeans
    /\ ped_rms \in PedRMSs
    /\ threshold = 0
    /\ fire = FALSE
    /\ counter = 0
    /\ pulse = ResetParam
    /\ pulse_v \in EarlierPulses
    /\ recoPulsePc = "entry"
    /\ ProduceAtRest
    /\ CalorimetryAtRest
    /\ PhotonCounterAtRest

SpecRecoPulse == InitRecoPulse /\ [][NextRecoPulse]_vars

----------------------------------------------------------------------------
(* calo::TrackCalorimetryAlg::ExtractCalorimetry.                          *)

(* Bounds: the number of planes, of hits and of tracks.                    *)
MaxPlanes == 3

MaxTrackHits == 2

MaxTracks == 2

(* Lines 42-43: the hits of a track, in order, each appended to the list   *)
(* of its plane.                                                           *)
RECURSIVE PushToPlanes(_, _, _)
PushToPlanes(lists, hits, planes) ==
    IF hits = <<>> THEN lists
    ELSE LET i_hit == Head(hits)
         IN PushToPlanes([lists EXCEPT ![planes[i_hit + 1] + 1] = Append(@, i_hit)],
                         Tail(hits), planes)

(* Lines 35-40: the next track; its lists of hits per plane are empty.     *)
NextTrack ==
    /\ caloPc = "tracks"
    /\ i_track < Len(hit_indices_per_track)
    /\ hit_indices_per_plane' = [p \in 1..Nplanes |-> <<>>]
    /\ i_plane' = 0
    /\ caloPc' = "sort"
    /\ UNCHANGED <<Nplanes, hitVector, hit_indices_per_track, i_track, analyzed,
                   produceVars, recoPulseVars, photonVars>>

(* Lines 41-43: one pass of the loop over the planes that sorts the hits.  *)
SortHits ==
    /\ caloPc = "sort"
    /\ i_plane < Nplanes
    /\ hit_indices_per_plane' =
          PushToPlanes(hit_indices_per_plane, hit_indices_per_track[i_track + 1], hitVector)
    /\ i_plane' = i_plane + 1
    /\ UNCHANGED <<Nplanes, hitVector, hit_indices_per_track, i_track, analyzed, caloPc,
                   produceVars, recoPulseVars, photonVars>>

(* Lines 41, 46: the hits are sorted, the loop over the planes starts.     *)
SortDone ==
    /\ caloPc = "sort"
    /\ i_plane = Nplanes
    /\ i_plane' = 0
    /\ caloPc' = "planes"
    /\ UNCHANGED <<Nplanes, hitVector, hit_indices_per_track, i_track,
                   hit_indices_per_plane, analyzed,
                   produceVars, recoPulseVars, photonVars>>

(* Lines 46-68: one plane; AnalyzeHit is called for each hit of its list.  *)
AnalyzePlane ==
    /\ caloPc = "planes"
    /\ i_plane < Nplanes
    /\ analyzed' =
          analyzed \o [k \in 1..Len(hit_indices_per_plane[i_plane + 1]) |->
                          [track |-> i_track, hit |-> hit_indices_per_plane[i_plane + 1][k]]]
    /\ i_plane' = i_plane + 1
    /\ UNCHANGED <<Nplanes, hitVector, hit_indices_per_track, i_track,
                   hit_indices_per_plane, caloPc,
                   produceVars, recoPulseVars, photonVars>>

(* Lines 46, 68-70: the planes of the track are done.                      *)
TrackDone ==
    /\ caloPc = "planes"
    /\ i_plane = Nplanes
    /\ i_track' = i_track + 1
    /\ caloPc' = "tracks"
    /\ UNCHANGED <<Nplanes, hitVector, hit_indices_per_track, i_plane,
                   hit_indices_per_plane, analyzed,
                   produceVars, recoPulseVars, photonVars>>

(* Lines 35, 72.                                                           *)
ExtractReturn ==
    /\ caloPc = "tracks"
    /\ i_track = Len(hit_indices_per_track)
    /\ caloPc' = "done"
    /\ UNCHANGED <<Nplanes, hitVector, hit_indices_per_track, i_track, i_plane,
                   hit_indices_per_plane, analyzed,
                   produceVars, recoPulseVars, photonVars>>

NextExtractCalorimetry ==
    \/ NextTrack
    \/ SortHits
    \/ SortDone
    \/ AnalyzePlane
    \/ TrackDone
    \/ ExtractReturn

(* The indices (0-based) of the hits of the track t, in increasing order,  *)
(* when owner gives the track of each hit.                                 *)
HitsOfTrack(owner, t) ==
    SelectSeq([i \in 1..Len(owner) |-> i - 1], LAMBDA i_hit : owner[i_hit + 1] = t)

(* One to MaxPlanes planes, hits in any of the planes, each hit in one of  *)
(* the tracks.                                                             *)
InitExtractCalorimetry ==
    /\ Nplanes \in 1..MaxPlanes
    /\ hitVector \in SeqsUpTo(0..(Nplanes - 1), MaxTrackHits)
    /\ \E n \in 1..MaxTracks :
         \E owner \in [1..Len(hitVector) -> 1..n] :
            hit_indices_per_track = [t \in 1..n |-> HitsOfTrack(owner, t)]
    /\ i_track = 0
    /\ i_plane = 0
    /\ hit_indices_per_plane = <<>>
    /\ analyzed = <<>>
    /\ caloPc = "tracks"
    /\ ProduceAtRest
    /\ RecoPulseAtRest
    /\ PhotonCounterAtRest

SpecExtractCalorimetry == InitExtractCalorimetry /\ [][NextExtractCalorimetry]_vars

----------------------------------------------------------------------------
(* opdet::SimPhotonCounter: isVisible and the loop over the photons of one *)
(* optical detector in analyze.                                            *)

(* Bound: the number of photons of an optical detector.                    *)
MaxPhotons == 2

(* Lines 209, 212, 215.                                                    *)
kVisibleThreshold == 200

kVisibleWavelength == 450

kVUVWavelength == 128

(* Lines 289-290: isVisible(wavelength) on an object whose member          *)
(* fWavelength has the value member.                                       *)
isVisible(member, wavelength) == member < kVisibleThreshold

(* Lines 560-563: the counters of the optical detector are reset.          *)
BeginOpDet ==
    /\ photonPc = "start"
    /\ fCountOpDetDetected' = 0
    /\ fCountOpDetReflDetected' = 0
    /\ iPhot' = 0
    /\ photonPc' = "photons"
    /\ UNCHANGED <<IsBuildJob, StoreReflected, Reflected, TheHit, fWavelength, stored,
                   produceVars, recoPulseVars, caloVars>>

(* Lines 577-651: one photon.  The wavelength is stored in fWavelength     *)
(* (line 580) before isVisible(fWavelength) is called (lines 591, 600).    *)
CountPhoton ==
    /\ photonPc = "photons"
    /\ iPhot < Len(TheHit)
    /\ LET Phot == TheHit[iPhot + 1]
           direct ==
               IF IsBuildJob /\ ~Reflected
               THEN Phot.detected /\ ~isVisible(Phot.wavelength, Phot.wavelength)
               ELSE Phot.detected /\ ~Reflected
           reflected ==
               IF IsBuildJob /\ ~Reflected
               THEN /\ Phot.detected
                    /\ isVisible(Phot.wavelength, Phot.wavelength)
                    /\ StoreReflected
               ELSE Phot.detected /\ Reflected /\ StoreReflected
       IN /\ fWavelength' = Phot.wavelength
          /\ fCountOpDetDetected' = fCountOpDetDetected + (IF direct THEN 1 ELSE 0)
          /\ fCountOpDetReflDetected' = fCountOpDetReflDetected + (IF reflected THEN 1 ELSE 0)
    /\ iPhot' = iPhot + 1
    /\ UNCHANGED <<IsBuildJob, StoreReflected, Reflected, TheHit, stored, photonPc,
                   produceVars, recoPulseVars, caloVars>>

(* Lines 577, 654-658: the photons are done; in a library build job the    *)
(* two counts are handed to storeVisibility.                               *)
EndOpDet ==
    /\ photonPc = "photons"
    /\ iPhot = Len(TheHit)
    /\ stored' = IF IsBuildJob /\ ~Reflected
                 THEN Append(stored, [nDirectPhotons |-> fCountOpDetDetected,
                                      nReflectedPhotons |-> fCountOpDetReflDetected])
                 ELSE stored
    /\ photonPc' = "done"
    /\ UNCHANGED <<IsBuildJob, StoreReflected, Reflected, TheHit, iPhot, fWavelength,
                   fCountOpDetDetected, fCountOpDetReflDetected,
                   produceVars, recoPulseVars, caloVars>>

NextPhotonCounter ==
    \/ BeginOpDet
    \/ CountPhoton
    \/ EndOpDet

(* Wavelengths: vacuum ultraviolet, the threshold itself, visible.         *)
Wavelengths == {kVUVWavelength, kVisibleThreshold, kVisibleWavelength}

OnePhoton == [wavelength : Wavelengths, detected : BOOLEAN]

(* One optical detector with its photons; fWavelength holds the wavelength *)
(* of some earlier photon.                                                 *)
InitPhotonCounter ==
    /\ IsBuildJob \in BOOLEAN
    /\ StoreReflected \in BOOLEAN
    /\ Reflected \in BOOLEAN
    /\ TheHit \in SeqsUpTo(OnePhoton, MaxPhotons)
    /\ iPhot = 0
    /\ fWavelength \in Wavelengths
    /\ fCountOpDetDetected = 0
    /\ fCountOpDetReflDetected = 0
    /\ stored = <<>>
    /\ photonPc = "start"
    /\ ProduceAtRest
    /\ RecoPulseAtRest
    /\ CalorimetryAtRest

SpecPhotonCounter == InitPhotonCounter /\ [][NextPhotonCounter]_vars

----------------------------------------------------------------------------
(* Vocabulary of the properties.                                           *)

(* The tags emitted so far, and the PFParticle the k-th one was made for.  *)
Emitted == 1..Len(cosmicTagPFParticleVector)

TagOf(k) == cosmicTagPFParticleVector[k]

ObjectOf(k) == evt.pfParticles[assnOutCosmicTagPFParticle[k].pfParticle + 1]

(* The canonical axis of an object: the one with the smaller id.           *)
CanonicalAxis(obj) ==
    IF Len(obj.pcAxes) = 2 /\ obj.pcAxes[1].ID > obj.pcAxes[2].ID
    THEN obj.pcAxes[2]
    ELSE obj.pcAxes[1]

(* The hit lists the timing scan works on: for each cluster of the object, *)
(* the list looked up with the cluster's ID (line 213).  Whether that is   *)
(* the hit list of the same cluster is the subject of C26.                 *)
ScannedHitLists(obj) ==
    [i \in 1..Len(obj.clusters) |->
        LET id == evt.clusters[obj.clusters[i]].ID IN
        IF id \in 0..(Len(evt.clusters) - 1) THEN evt.clusters[id + 1].hits ELSE <<>>]

(* Out of time: before the drift window or after twice the drift window.   *)
TimedOut(h) ==
    h.PeakTimeMinusRMS < fDetectorWidthTicks \/ h.PeakTimePlusRMS > 2 * fDetectorWidthTicks

HasTimedOutHit(obj) ==
    \E i \in 1..Len(obj.clusters) :
        \E j \in 1..Len(ScannedHitLists(obj)[i]) : TimedOut(ScannedHitLists(obj)[i][j])

(* The axis is not degenerate: e0 > 0 and t > 0.                           *)
NotDegenerate(axis) == axis.eigenValues[1] > 0 /\ axis.eigenValues[2] # 0

(* The projector branch runs for the object.                               *)
BranchRuns(obj) ==
    /\ ~HasTimedOutHit(obj)
    /\ obj.spacePoints # <<>>
    /\ NotDegenerate(CanonicalAxis(obj))

(* The proximity flags of a point and the rules of the decision table on   *)
(* two end points.                                                         *)
nearX(p) == NearX(p[1])

nearY(p) == NearY(p[2])

nearZ(p) == NearZ(p[3])

exit(p) == nearX(p) \/ nearY(p)

Rule1(s, e) ==
    \/ exit(s) /\ exit(e)
    \/ exit(s) /\ nearZ(e)
    \/ exit(s) /\ nearZ(s)

Rule2(s, e) == ~Rule1(s, e) /\ nearZ(s) /\ nearZ(e)

Rule3(s, e) ==
    /\ ~Rule1(s, e)
    /\ ~(nearZ(s) /\ nearZ(e))
    /\ (nearX(s) \/ nearY(s) \/ nearZ(s)) # (nearX(e) \/ nearY(e) \/ nearZ(e))

GeometryTags ==
    {kGeometry_XX, kGeometry_YY, kGeometry_ZZ, kGeometry_XY, kGeometry_XZ,
     kGeometry_YZ, kGeometry_X, kGeometry_Y, kGeometry_Z}

----------------------------------------------------------------------------
(* C1.  Every emitted tag has the score of its tag kind: NotTagged 0.0,    *)
(* Geometry_ZZ 0.4, Geometry_X / _Y / _Z 0.5, OutsideDrift_Partial and     *)
(* Geometry_XX / _YY / _XY / _XZ / _YZ 1.0; no other pair is emitted.      *)

ScoreOfKind(tag) ==
    CASE tag = kNotTagged -> 0
      [] tag = kGeometry_ZZ -> 4
      [] tag \in {kGeometry_X, kGeometry_Y, kGeometry_Z} -> 5
      [] tag \in {kOutsideDrift_Partial, kGeometry_XX, kGeometry_YY,
                  kGeometry_XY, kGeometry_XZ, kGeometry_YZ} -> 10
      [] OTHER -> -1

C1_ScoreByTagKind ==
    \A k \in Emitted : TagOf(k).cosmicScore = ScoreOfKind(TagOf(k).tag_id)

(* A tag of an object with one end point at a boundary has been emitted.   *)
C1_Witness ==
    \E k \in Emitted :
        /\ TagOf(k).tag_id \in {kGeometry_X, kGeometry_Y, kGeometry_Z}
        /\ TagOf(k).cosmicScore = 5

----------------------------------------------------------------------------
(* C2.  Once a scanned hit of the object is out of time the level is 1 and *)
(* stays 1 to the end of the pass: the space points are not projected, the *)
(* boundary rules are not evaluated, and the emitted tag is                *)
(* OutsideDrift_Partial with score 1.0 whatever the space points and end   *)
(* points are.                                                             *)

(* A cluster already scanned in the current pass had a hit out of time.    *)
SawTimedOutHit ==
    /\ pc \in {"clusters", "hits", "project", "emit"}
    /\ \E i \in 1..clusterIdx :
         \E j \in 1..Len(ScannedHitLists(pfParticle)[i]) :
            TimedOut(ScannedHitLists(pfParticle)[i][j])

C2_TimingFlagSticky ==
    /\ SawTimedOutHit =>
          /\ isCosmic = 1
          /\ tag_id = kOutsideDrift_Partial
          /\ pc # "project"
          /\ nBdX = NoFlags /\ nBdY = NoFlags /\ nBdZ = NoFlags
    /\ \A k \in Emitted :
          HasTimedOutHit(ObjectOf(k)) =>
             /\ TagOf(k).tag_id = kOutsideDrift_Partial
             /\ TagOf(k).cosmicScore = 10

(* A tag has been emitted for an object whose first cluster has a hit out  *)
(* of time, whose last cluster is in time, and whose space points lie at   *)
(* both x faces.                                                           *)
C2_Witness ==
    \E k \in Emitted :
        LET obj == ObjectOf(k)
            lists == ScannedHitLists(obj)
        IN /\ Len(obj.clusters) >= 2
           /\ \E j \in 1..Len(lists[1]) : TimedOut(lists[1][j])
           /\ Len(lists[Len(lists)]) >= 1
           /\ \A j \in 1..Len(lists[Len(lists)]) : ~TimedOut(lists[Len(lists)][j])
           /\ Len(obj.spacePoints) = 2
           /\ Rule1(obj.spacePoints[1], obj.spacePoints[2])
           /\ TagOf(k).tag_id = kOutsideDrift_Partial

----------------------------------------------------------------------------
(* C3.  As stated: for an object with a scanned hit with peakTimeMinusRMS  *)
(* below the drift window, rules 1-3 are evaluated first and override:     *)
(* when one of them matches the end points a geometry tag is emitted, and  *)
(* OutsideDrift_Partial is emitted only when none matches.                 *)

HasEarlyHit(obj) ==
    \E i \in 1..Len(obj.clusters) :
        \E j \in 1..Len(ScannedHitLists(obj)[i]) :
            ScannedHitLists(obj)[i][j].PeakTimeMinusRMS < fDetectorWidthTicks

AnyRule(s, e) == Rule1(s, e) \/ Rule2(s, e) \/ Rule3(s, e)

C3_RulesOverrideTiming ==
    \A k \in Emitted :
        HasEarlyHit(ObjectOf(k)) =>
            IF AnyRule(TagOf(k).endPt1, TagOf(k).endPt2)
            THEN TagOf(k).tag_id \in GeometryTags
            ELSE TagOf(k).tag_id = kOutsideDrift_Partial /\ TagOf(k).cosmicScore = 10

(* C3, amended.  For an object with a scanned hit with peakTimeMinusRMS    *)
(* below the drift window the rules 1-3 do not override: the tag is        *)
(* OutsideDrift_Partial with score 1.0, no geometry tag, also when one of  *)
(* the rules matches the end points.                                       *)
C3_TimingOverridesRules ==
    \A k \in Emitted :
        HasEarlyHit(ObjectOf(k)) =>
            /\ TagOf(k).tag_id \notin GeometryTags
            /\ TagOf(k).tag_id = kOutsideDrift_Partial
            /\ TagOf(k).cosmicScore = 10

(* A tag OutsideDrift_Partial has been emitted for an object with an early *)
(* hit, with end points and space points that match rule 1.                *)
C3_Witness ==
    \E k \in Emitted :
        /\ HasEarlyHit(ObjectOf(k))
        /\ Rule1(TagOf(k).endPt1, TagOf(k).endPt2)
        /\ Len(ObjectOf(k).spacePoints) = 2
        /\ Rule1(ObjectOf(k).spacePoints[1], ObjectOf(k).spacePoints[2])
        /\ TagOf(k).tag_id = kOutsideDrift_Partial

----------------------------------------------------------------------------
(* C4.  Rule 1: when the projector branch runs and                         *)
(* (exit(start) /\ exit(end)) \/ (exit(start) /\ nearZ(end)) \/            *)
(* (exit(start) /\ nearZ(start)), the level is 2, the score 1.0 and the    *)
(* tag the first match of XX, YY, XY, XZ, else YZ.                         *)

Rule1Tag(s, e) ==
    IF nearX(s) /\ nearX(e) THEN kGeometry_XX
    ELSE IF nearY(s) /\ nearY(e) THEN kGeometry_YY
    ELSE IF (nearX(s) \/ nearX(e)) /\ (nearY(s) \/ nearY(e)) THEN kGeometry_XY
    ELSE IF (nearX(s) \/ nearX(e)) /\ (nearZ(s) \/ nearZ(e)) THEN kGeometry_XZ
    ELSE kGeometry_YZ

----------------------------------------------------------------------------
(* C5.  Rule 3: when the projector branch runs, rules 1 and 2 do not match *)
(* and exactly one end point has a flag set, the level is 4, the score 0.5 *)
(* and the tag Geometry_X if an X flag is set, else Geometry_Y if a Y flag *)
(* is set, else Geometry_Z.                                                *)

Rule3Tag(s, e) ==
    IF nearX(s) \/ nearX(e) THEN kGeometry_X
    ELSE IF nearY(s) \/ nearY(e) THEN kGeometry_Y
    ELSE kGeometry_Z

C5_Rule3 ==
    /\ (pc = "emit" /\ BranchRuns(pfParticle) /\ Rule3(trackEndPt1, trackEndPt2)) =>
          /\ isCosmic = 4
          /\ tag_id = Rule3Tag(trackEndPt1, trackEndPt2)
    /\ \A k \in Emitted :
          (BranchRuns(ObjectOf(k)) /\ Rule3(TagOf(k).endPt1, TagOf(k).endPt2)) =>
             /\ TagOf(k).cosmicScore = 5
             /\ TagOf(k).tag_id = Rule3Tag(TagOf(k).endPt1, TagOf(k).endPt2)

(* A tag Geometry_X with score 0.5 has been emitted for an object whose    *)
(* end point 2 alone is near a face, in x and in y.                        *)
C5_Witness ==
    \E k \in Emitted :
        /\ BranchRuns(ObjectOf(k))
        /\ ~nearX(TagOf(k).endPt1) /\ ~nearY(TagOf(k).endPt1) /\ ~nearZ(TagOf(k).endPt1)
        /\ nearX(TagOf(k).endPt2) /\ nearY(TagOf(k).endPt2)
        /\ TagOf(k).tag_id = kGeometry_X
        /\ TagOf(k).cosmicScore = 5

----------------------------------------------------------------------------
(* C6.  Rule 2: when the projector branch runs, rule 1 does not match and  *)
(* both end points are near a z face, the level is 3, the tag Geometry_ZZ  *)
(* and the score 0.4; Geometry_ZZ is never emitted when rule 1 matches.    *)

----------------------------------------------------------------------------
(* C7.  As stated: an object with an axis and no scanned hit out of time   *)
(* is NotTagged with score 0.0 exactly when it has no space points or none *)
(* of rules 1-3 matches its end points, and the rules are evaluated        *)
(* whenever the level is 0 after the scan and the object has space points. *)

(* The level and tag are the outcome of rules 1-3 on the end points.       *)
RulesApplied(level, tag, s, e) ==
    IF Rule1(s, e) THEN level = 2 /\ tag = Rule1Tag(s, e)
    ELSE IF Rule2(s, e) THEN level = 3 /\ tag = kGeometry_ZZ
    ELSE IF Rule3(s, e) THEN level = 4 /\ tag = Rule3Tag(s, e)
    ELSE level = 0 /\ tag = kNotTagged

C7_NotTaggedIffNoRule ==
    /\ \A k \in Emitted :
          ~HasTimedOutHit(ObjectOf(k)) =>
             ((TagOf(k).tag_id = kNotTagged /\ TagOf(k).cosmicScore = 0)
                <=> (ObjectOf(k).spacePoints = <<>>
                       \/ ~AnyRule(TagOf(k).endPt1, TagOf(k).endPt2)))
    /\ (pc = "emit" /\ ~HasTimedOutHit(pfParticle) /\ spacePointVec # <<>>) =>
          RulesApplied(isCosmic, tag_id, trackEndPt1, trackEndPt2)

(* C7, amended.  An object with an axis and no scanned hit out of time is  *)
(* NotTagged with score 0.0 exactly when the projector branch was skipped  *)
(* (no space points, or a dominant eigenvalue or transverse spread that is *)
(* not > 0) or none of rules 1-3 matches its end points; the rules are     *)
(* evaluated whenever the level is 0 after the scan, the object has space  *)
(* points and the axis is not degenerate.                                  *)
C7_NotTaggedIffSkippedOrNoRule ==
    /\ \A k \in Emitted :
          ~HasTimedOutHit(ObjectOf(k)) =>
             ((TagOf(k).tag_id = kNotTagged /\ TagOf(k).cosmicScore = 0)
                <=> (ObjectOf(k).spacePoints = <<>>
                       \/ ~NotDegenerate(CanonicalAxis(ObjectOf(k)))
                       \/ ~AnyRule(TagOf(k).endPt1, TagOf(k).endPt2)))
    /\ (pc = "emit" /\ BranchRuns(pfParticle)) =>
          RulesApplied(isCosmic, tag_id, trackEndPt1, trackEndPt2)

(* A tag NotTagged has been emitted for an object without hit out of time, *)
(* with space points and a degenerate axis, whose end points match rule 1. *)
C7_Witness ==
    \E k \in Emitted :
        /\ ~HasTimedOutHit(ObjectOf(k))
        /\ ObjectOf(k).spacePoints # <<>>
        /\ ~NotDegenerate(CanonicalAxis(ObjectOf(k)))
        /\ Rule1(TagOf(k).endPt1, TagOf(k).endPt2)
        /\ TagOf(k).tag_id = kNotTagged
        /\ TagOf(k).cosmicScore = 0

----------------------------------------------------------------------------
(* C8.  The flags of each end point p are computed independently, with     *)
(* strict inequalities: nearX iff width - p.x < marginX or p.x < marginX,  *)
(* nearY iff halfHeight - p.y < marginY or halfHeight + p.y < marginY,     *)
(* nearZ iff length - p.z < marginZ or p.z < marginZ.  A coordinate at     *)
(* exactly the margin from a face is not near it, one outside the detector *)
(* is near.                                                                *)

FlagsOf(p, bx, by, bz) ==
    /\ bx <=> (fDetWidth - p[1] < fTPCXBoundary \/ p[1] < fTPCXBoundary)
    /\ by <=> (fDetHalfHeight - p[2] < fTPCYBoundary \/ fDetHalfHeight + p[2] < fTPCYBoundary)
    /\ bz <=> (fDetLength - p[3] < fTPCZBoundary \/ p[3] < fTPCZBoundary)
    /\ (p[1] = fTPCXBoundary \/ fDetWidth - p[1] = fTPCXBoundary) => ~bx
    /\ (fDetHalfHeight + p[2] = fTPCYBoundary \/ fDetHalfHeight - p[2] = fTPCYBoundary) => ~by
    /\ (p[3] = fTPCZBoundary \/ fDetLength - p[3] = fTPCZBoundary) => ~bz
    /\ (p[1] < 0 \/ p[1] > fDetWidth) => bx
    /\ (p[2] < -fDetHalfHeight \/ p[2] > fDetHalfHeight) => by
    /\ (p[3] < 0 \/ p[3] > fDetLength) => bz

C8_ProximityFlags ==
    (pc = "emit" /\ BranchRuns(pfParticle)) =>
        /\ FlagsOf(trackEndPt1, nBdX[1], nBdY[1], nBdZ[1])
        /\ FlagsOf(trackEndPt2, nBdX[2], nBdY[2], nBdZ[2])

(* The boundaries have been checked for an end point 1 at exactly the      *)
(* margin from the face x = 0 and an end point 2 outside the detector.     *)
C8_Witness ==
    /\ pc = "emit"
    /\ BranchRuns(pfParticle)
    /\ trackEndPt1[1] = fTPCXBoundary
    /\ nBdX[1] = FALSE
    /\ trackEndPt2[1] > fDetWidth
    /\ nBdX[2] = TRUE

----------------------------------------------------------------------------
(* C9.  When the projector branch runs, end point 1 is a space point of    *)
(* minimum arc length and end point 2 a space point of maximum arc length, *)
(* whatever the arc lengths, and with distinct arc lengths the result is   *)
(* the same for every ordering of the space points.                        *)

Reordered(spv, perm) == [i \in 1..Len(spv) |-> spv[perm[i]]]

C9_ExtremalEndPoints ==
    (pc = "emit" /\ BranchRuns(pfParticle)) =>
        LET axis == CanonicalAxis(pfParticle)
            n == Len(spacePointVec)
            arc(i) == Dot(VSub(spacePointVec[i], axis.avePosition), axis.eigenVector0)
        IN /\ \E i \in 1..n :
                 trackEndPt1 = spacePointVec[i] /\ \A j \in 1..n : arc(i) <= arc(j)
           /\ \E i \in 1..n :
                 trackEndPt2 = spacePointVec[i] /\ \A j \in 1..n : arc(i) >= arc(j)
           /\ (\A i, j \in 1..n : i # j => arc(i) # arc(j)) =>
                 \A perm \in Permutations(1..n) :
                    /\ Project(axis, Reordered(spacePointVec, perm)).start = trackEndPt1
                    /\ Project(axis, Reordered(spacePointVec, perm)).end = trackEndPt2

----------------------------------------------------------------------------
(* C10.  For an object without space points, or with a scanned hit out of  *)
(* time, or with a degenerate axis, the emitted end points are             *)
(* mean - 3 sqrt(e0) direction and mean + 3 sqrt(e0) direction of the      *)
(* canonical axis, whatever its space points.                              *)

AxisDerived(axis, endPt1, endPt2) ==
    \E r \in 0..axis.eigenValues[1] :
        /\ r * r = axis.eigenValues[1]
        /\ \A c \in 1..3 :
             /\ endPt1[c] = axis.avePosition[c] - 3 * r * axis.eigenVector0[c]
             /\ endPt2[c] = axis.avePosition[c] + 3 * r * axis.eigenVector0[c]

C10_FallbackEndPoints ==
    \A k \in Emitted :
        (\/ ObjectOf(k).spacePoints = <<>>
         \/ HasTimedOutHit(ObjectOf(k))
         \/ ~NotDegenerate(CanonicalAxis(ObjectOf(k)))) =>
            AxisDerived(CanonicalAxis(ObjectOf(k)), TagOf(k).endPt1, TagOf(k).endPt2)

(* A tag has been emitted for an object with space points and a scanned    *)
(* hit out of time, with the end points of the axis, which are none of the *)
(* space points.                                                           *)
C10_Witness ==
    \E k \in Emitted :
        /\ HasTimedOutHit(ObjectOf(k))
        /\ Len(ObjectOf(k).spacePoints) = 2
        /\ AxisDerived(CanonicalAxis(ObjectOf(k)), TagOf(k).endPt1, TagOf(k).endPt2)
        /\ \A i \in 1..2 :
             /\ ObjectOf(k).spacePoints[i] # TagOf(k).endPt1
             /\ ObjectOf(k).spacePoints[i] # TagOf(k).endPt2

----------------------------------------------------------------------------
(* C11.  Axis selection: with one associated axis that axis is canonical;  *)
(* with two, the pair is swapped only if the first-listed axis has a       *)
(* strictly larger id than the second, and the canonical axis is the first *)
(* element afterwards: it is the axis with the smaller id (ids (5, 3)      *)
(* select id 3), and with equal or ascending ids the first-listed axis is  *)
(* kept.                                                                   *)

(* The pass over the current PFParticle has selected its axis.             *)
InPass == pc \in {"clusters", "hits", "project", "emit"}

C11_AxisSelection ==
    InPass =>
        LET axes == pfParticle.pcAxes IN
        /\ Len(axes) = 1 => pcAxisVec = axes /\ pcAxis = axes[1]
        /\ Len(axes) = 2 =>
              /\ pcAxisVec = <<axes[2], axes[1]>> <=> (axes[1].ID > axes[2].ID)
              /\ pcAxisVec = axes <=> (axes[1].ID <= axes[2].ID)
              /\ pcAxis.ID <= axes[1].ID /\ pcAxis.ID <= axes[2].ID
              /\ (axes[1].ID = 5 /\ axes[2].ID = 3) => pcAxis.ID = 3
              /\ axes[1].ID <= axes[2].ID => pcAxis = axes[1]

(* The axes with ids (5, 3) have been swapped and the axis with id 3 is    *)
(* the canonical one.                                                      *)
C11_Witness ==
    /\ pc = "emit"
    /\ Len(pfParticle.pcAxes) = 2
    /\ pfParticle.pcAxes[1].ID = 5 /\ pfParticle.pcAxes[2].ID = 3
    /\ pcAxisVec = <<pfParticle.pcAxes[2], pfParticle.pcAxes[1]>>
    /\ pcAxis.ID = 3

----------------------------------------------------------------------------
(* C12.  After the timing scan of an object the level is 1 with tag        *)
(* OutsideDrift_Partial if and only if at least one scanned hit of at      *)
(* least one of its clusters has peakTimeMinusRMS < driftWindowTicks or    *)
(* peakTimePlusRMS > 2 * driftWindowTicks (otherwise the level is 0 with   *)
(* tag NotTagged); once set during the scan, the flag is not cleared by    *)
(* later hits or clusters in time.                                         *)

(* The scan of the clusters of the current PFParticle is over.             *)
ScanOver == pc = "clusters" /\ clusterIdx = Len(clusterVec)

Flagged == isCosmic = 1 /\ tag_id = kOutsideDrift_Partial

NotFlagged == isCosmic = 0 /\ tag_id = kNotTagged

C12_AfterScan ==
    /\ ScanOver => (Flagged <=> HasTimedOutHit(pfParticle))
    /\ ScanOver => (Flagged \/ NotFlagged)
    /\ pc \in {"clusters", "hits"} => (Flagged <=> SawTimedOutHit)
    /\ pc \in {"clusters", "hits"} => (Flagged \/ NotFlagged)

C12_NeverCleared ==
    (pc \in {"clusters", "hits"} /\ Flagged /\ pc' \in {"clusters", "hits", "emit"})
        => Flagged'

C12_TimingFlag == []C12_AfterScan /\ [][C12_NeverCleared]_vars

(* The scan is over with the flag set for an object whose first cluster    *)
(* has a hit out of time followed by a hit in time, and whose last cluster *)
(* has hits in time only.                                                  *)
C12_Witness ==
    /\ ScanOver
    /\ Flagged
    /\ Len(clusterVec) >= 2
    /\ LET lists == ScannedHitLists(pfParticle) IN
         /\ Len(lists[1]) = 2
         /\ TimedOut(lists[1][1]) /\ ~TimedOut(lists[1][2])
         /\ Len(lists[Len(lists)]) >= 1
         /\ \A j \in 1..Len(lists[Len(lists)]) : ~TimedOut(lists[Len(lists)][j])

----------------------------------------------------------------------------
(* C13.  Scope of the early exit of the timing scan: within a cluster no   *)
(* hit after the first out-of-time hit of that cluster is examined, and    *)
(* the scan of the object is not aborted: the hits of every later cluster  *)
(* are examined from the first one, also after the flag has been set.  A   *)
(* hit of a scanned cluster is examined exactly when no earlier hit of the *)
(* same cluster is out of time, and no hit is examined twice.              *)

(* Hit j of the i-th cluster of the current PFParticle has been examined.  *)
Examined(i, j) ==
    \E n \in 1..Len(examined) : examined[n] = [cluster |-> i - 1, hit |-> j - 1]

C13_EarlyExitScope ==
    InPass =>
        LET lists == ScannedHitLists(pfParticle) IN
        /\ \A i \in 1..Len(lists) : \A j \in 1..Len(lists[i]) :
              /\ i <= clusterIdx =>
                    (Examined(i, j) <=> \A k \in 1..(j - 1) : ~TimedOut(lists[i][k]))
              /\ (i = clusterIdx + 1 /\ pc = "hits") =>
                    /\ Examined(i, j) <=> j <= hitIdx
                    /\ Examined(i, j) => ~TimedOut(lists[i][j])
              /\ (i > clusterIdx + 1 \/ (i = clusterIdx + 1 /\ pc # "hits")) =>
                    ~Examined(i, j)
        /\ \A m, n \in 1..Len(examined) : m # n => examined[m] # examined[n]
        /\ \A n \in 1..Len(examined) :
              /\ examined[n].cluster + 1 \in 1..Len(lists)
              /\ examined[n].hit + 1 \in 1..Len(lists[examined[n].cluster + 1])

(* The scan is over for an object whose first cluster has a hit out of     *)
(* time followed by another hit, which has not been examined, and whose    *)
(* last cluster has been examined from its first hit.                      *)
C13_Witness ==
    /\ ScanOver
    /\ Len(clusterVec) >= 2
    /\ LET lists == ScannedHitLists(pfParticle) IN
         /\ Len(lists[1]) = 2
         /\ TimedOut(lists[1][1])
         /\ Examined(1, 1) /\ ~Examined(1, 2)
         /\ Len(lists[Len(lists)]) >= 1
         /\ Examined(Len(lists), 1)

----------------------------------------------------------------------------
(* C14.  For a valid event the tag sequence holds exactly one CosmicTag    *)
(* per object with at least one axis, in the order of the objects in the   *)
(* input collection; each such object is associated to exactly the tag     *)
(* made for it; an object without axis yields no tag, no object->tag and   *)
(* no axis->tag association.                                               *)

(* The indices (0-based) of the first n objects that have an axis.         *)
HasAxis(idx) == evt.pfParticles[idx + 1].pcAxes # <<>>

WithAxis(n) == SelectSeq([i \in 1..n |-> i - 1], HasAxis)

(* The number of objects the loop has gone through.                        *)
Processed == IF pc = "done" THEN Len(evt.pfParticles) ELSE pfPartIdx

ValidEvent ==
    evt.pfValid /\ evt.pcaxisValid /\ evt.clusterValid /\ evt.spacePointAssnValid

C14_OneTagPerObject ==
    (ValidEvent /\ pc # "threw") =>
        LET objs == WithAxis(Processed) IN
        /\ Len(cosmicTagPFParticleVector) = Len(objs)
        /\ assnOutCosmicTagPFParticle =
              [k \in 1..Len(objs) |-> [pfParticle |-> objs[k], tag |-> k - 1]]
        /\ \A n \in 1..Len(assnOutCosmicTagPCAxis) :
              /\ assnOutCosmicTagPCAxis[n].tag \in 0..(Len(objs) - 1)
              /\ \E i \in 1..Len(evt.pfParticles[objs[assnOutCosmicTagPCAxis[n].tag + 1] + 1].pcAxes) :
                    evt.pfParticles[objs[assnOutCosmicTagPCAxis[n].tag + 1] + 1].pcAxes[i]
                        = assnOutCosmicTagPCAxis[n].pcAxis
        /\ pc = "done" =>
              \A idx \in 0..(Len(evt.pfParticles) - 1) :
                 IF HasAxis(idx)
                 THEN \E k \in Emitted :
                        /\ assnOutCosmicTagPFParticle[k].pfParticle = idx
                        /\ \A j \in Emitted :
                              assnOutCosmicTagPFParticle[j].pfParticle = idx => j = k
                 ELSE \A k \in Emitted : assnOutCosmicTagPFParticle[k].pfParticle # idx

(* produce is over on an event whose first object has no axis and whose    *)
(* second object has one: one tag, associated to the second object.        *)
C14_Witness ==
    /\ pc = "done"
    /\ ValidEvent
    /\ Len(evt.pfParticles) = 2
    /\ ~HasAxis(0) /\ HasAxis(1)
    /\ Len(cosmicTagPFParticleVector) = 1
    /\ assnOutCosmicTagPFParticle = <<[pfParticle |-> 1, tag |-> 0]>>

----------------------------------------------------------------------------
(* C15.  Every axis originally associated to a classified object, the one  *)
(* that is not canonical included, is associated to the tag of the object: *)
(* the axis->tag table has exactly one entry per original axis of each     *)
(* object with an axis, and none pointing to the tag of another object.    *)

(* The entries of the axis->tag table that point to the tag with index t.  *)
AxisEntriesOf(t) ==
    LET PointsTo(a) == a.tag = t IN SelectSeq(assnOutCosmicTagPCAxis, PointsTo)

C15_EveryAxisAssociated ==
    (ValidEvent /\ pc # "threw") =>
        LET objs == WithAxis(Processed) IN
        /\ \A n \in 1..Len(assnOutCosmicTagPCAxis) :
              assnOutCosmicTagPCAxis[n].tag \in 0..(Len(objs) - 1)
        /\ \A k \in 1..Len(objs) :
              LET axes == evt.pfParticles[objs[k] + 1].pcAxes
                  mine == AxisEntriesOf(assnOutCosmicTagPFParticle[k].tag)
              IN /\ Len(mine) = Len(axes)
                 /\ \E perm \in Permutations(1..Len(axes)) :
                       \A i \in 1..Len(axes) : mine[i].pcAxis = axes[perm[i]]

(* produce is over on an event of two objects, one with one axis and one   *)
(* with two: three entries, two of them for the object with two axes, its  *)
(* axis with id 5, which is not canonical, included.                       *)
C15_Witness ==
    /\ pc = "done"
    /\ ValidEvent
    /\ Len(cosmicTagPFParticleVector) = 2
    /\ Len(assnOutCosmicTagPCAxis) = 3
    /\ \E n \in 1..3 :
          /\ assnOutCosmicTagPCAxis[n].pcAxis.ID = 5
          /\ Len(AxisEntriesOf(assnOutCosmicTagPCAxis[n].tag)) = 2
          /\ Len(ObjectOf(assnOutCosmicTagPCAxis[n].tag + 1).pcAxes) = 2
          /\ CanonicalAxis(ObjectOf(assnOutCosmicTagPCAxis[n].tag + 1)).ID = 3

----------------------------------------------------------------------------
(* C16.  If the axis collection or the space point association is absent   *)
(* or invalid, produce emits the three output collections with size 0,     *)
(* with no partial results and no error signaled to the caller.            *)

(* The three collections are empty, and handed over as such when produce   *)
(* is over; produce has not been left by an exception.                     *)
EmptyOutputs ==
    /\ pc # "threw"
    /\ cosmicTagPFParticleVector = <<>>
    /\ assnOutCosmicTagPFParticle = <<>>
    /\ assnOutCosmicTagPCAxis = <<>>
    /\ pc = "done" =>
          /\ Len(put) = 3
          /\ \A n \in 1..3 : put[n].value = <<>>

C16_EmptyOnInvalidInputs ==
    (~evt.pcaxisValid \/ ~evt.spacePointAssnValid) => EmptyOutputs

(* The handles that are tested (lines 115, 131): if the axis collection or *)
(* the cluster collection is invalid, produce emits the three output       *)
(* collections with size 0 and goes from its start to its end without      *)
(* entering the loop over the objects.                                     *)
C16_EmptyOnInvalidHandles ==
    (~evt.pcaxisValid \/ ~evt.clusterValid) =>
        /\ EmptyOutputs
        /\ pc \in {"start", "done"}

(* produce is over, with three empty collections handed over, on an event  *)
(* with an object collection of one object and an invalid axis collection. *)
C16_InvalidHandleSeen ==
    /\ pc = "done"
    /\ evt.pfValid /\ ~evt.pcaxisValid
    /\ Len(evt.pfParticles) = 1
    /\ EmptyOutputs

----------------------------------------------------------------------------
(* C17.  Classification keeps no state across objects: the tag emitted for *)
(* an object (end points, score, tag kind) is a function of the object's   *)
(* own axes, scanned hits and space points, the same whatever other        *)
(* objects are in the event and wherever the object stands among them.     *)

(* The tag of an object with the axes axv, the scanned hit lists lists and *)
(* the space points spv, taken alone.                                      *)
Classify(axv, lists, spv) ==
    LET axis == OrderAxes(axv)[1]
        late == \E i \in 1..Len(lists) : \E j \in 1..Len(lists[i]) : TimedOut(lists[i][j])
        ends == Project(axis, spv)
        bx == <<NearX(ends.start[1]), NearX(ends.end[1])>>
        by == <<NearY(ends.start[2]), NearY(ends.end[2])>>
        bz == <<NearZ(ends.start[3]), NearZ(ends.end[3])>>
        d == BoundaryDecision(bx, by, bz, 0, kNotTagged)
    IN IF late
       THEN MakeTag(AxisStart(axis), AxisEnd(axis), 1, kOutsideDrift_Partial)
       ELSE IF spv # <<>> /\ AxisUsable(axis)
       THEN MakeTag(ends.start, ends.end, d.isCosmic, d.tag_id)
       ELSE MakeTag(AxisStart(axis), AxisEnd(axis), 0, kNotTagged)

SameObject(a, b) ==
    /\ a.pcAxes = b.pcAxes
    /\ a.spacePoints = b.spacePoints
    /\ ScannedHitLists(a) = ScannedHitLists(b)

----------------------------------------------------------------------------
(* C18.  On every path through produce (invalid object collection, invalid *)
(* axis or cluster collection, normal completion) each of the three output *)
(* collections is handed to the event exactly once, and it is not modified *)
(* after that.                                                             *)

(* The number of times the product has been handed to the event.           *)
TimesPut(product) == Cardinality({n \in 1..Len(put) : put[n].product = product})

Products == {"CosmicTags", "PFParticleAssns", "PCAxisAssns"}

C18_PutState ==
    /\ pc = "done" =>
          /\ \A p \in Products : TimesPut(p) = 1
          /\ Len(put) = 3
          /\ \E n \in 1..3 : put[n] = [product |-> "CosmicTags",
                                        value |-> cosmicTagPFParticleVector]
          /\ \E n \in 1..3 : put[n] = [product |-> "PFParticleAssns",
                                        value |-> assnOutCosmicTagPFParticle]
          /\ \E n \in 1..3 : put[n] = [product |-> "PCAxisAssns",
                                        value |-> assnOutCosmicTagPCAxis]
    /\ pc # "done" => put = <<>>

C18_PutStep ==
    /\ put # <<>> => UNCHANGED <<put, outputs>>
    /\ put' # put => pc' = "done" /\ UNCHANGED outputs

C18_PutOnce == []C18_PutState /\ [][C18_PutStep]_vars

(* produce is over after a normal completion: the three collections have   *)
(* been handed over, the tags with one tag.                                *)
C18_Witness ==
    /\ pc = "done"
    /\ ValidEvent
    /\ Len(put) = 3
    /\ Len(cosmicTagPFParticleVector) = 1
    /\ put[1].value = cosmicTagPFParticleVector

----------------------------------------------------------------------------
(* C19.  Degenerate axis guard: for an object without scanned hit out of   *)
(* time and with at least one space point, whose canonical axis has a      *)
(* dominant eigenvalue that is not > 0 or a transverse spread that is not  *)
(* > 0, the space points are not projected and rules 1-3 are not           *)
(* evaluated: the end points are the pair derived from the axis and the    *)
(* tag is NotTagged with score 0.0, also when those end points lie within  *)
(* a boundary margin.                                                      *)

(* The guarded case for an object.                                         *)
Guarded(obj) ==
    /\ ~HasTimedOutHit(obj)
    /\ obj.spacePoints # <<>>
    /\ \/ ~(CanonicalAxis(obj).eigenValues[1] > 0)
       \/ CanonicalAxis(obj).eigenValues[2] = 0

C19_DegenerateAxisGuard ==
    /\ (InPass /\ Guarded(pfParticle)) =>
          /\ pc # "project"
          /\ spIdx = 0
          /\ arcLengthToFirstHit = ArcLengthFirstInit
          /\ arcLengthToLastHit = ArcLengthLastInit
          /\ nBdX = NoFlags /\ nBdY = NoFlags /\ nBdZ = NoFlags
          /\ isCosmic = 0 /\ tag_id = kNotTagged
          /\ AxisDerived(CanonicalAxis(pfParticle), trackEndPt1, trackEndPt2)
    /\ \A k \in Emitted :
          Guarded(ObjectOf(k)) =>
             /\ AxisDerived(CanonicalAxis(ObjectOf(k)), TagOf(k).endPt1, TagOf(k).endPt2)
             /\ TagOf(k).tag_id = kNotTagged
             /\ TagOf(k).cosmicScore = 0

(* The tag is about to be emitted for an object with space points, no hit  *)
(* out of time and an axis without transverse spread: the end points       *)
(* derived from the axis lie within the margin of the two x faces, no flag *)
(* is set and the tag is NotTagged.                                        *)
C19_Witness ==
    /\ pc = "emit"
    /\ Guarded(pfParticle)
    /\ CanonicalAxis(pfParticle).eigenValues[1] > 0
    /\ trackEndPt1[1] < fTPCXBoundary
    /\ fDetWidth - trackEndPt2[1] < fTPCXBoundary
    /\ nBdX = NoFlags
    /\ isCosmic = 0 /\ tag_id = kNotTagged

----------------------------------------------------------------------------
(* C20.  The transverse spread is computed from the second eigenvalue      *)
(* only: the third eigenvalue of the canonical axis does not influence the *)
(* tag (two objects that differ only in it get identical tags), and the    *)
(* transverse guard t > 0 passes exactly when the second eigenvalue is not *)
(* zero.  The first part is stated of the tags of the output, when         *)
(* produce is over.                                                        *)

(* The object with the third eigenvalue of its canonical axis set to v.    *)
WithThird(obj, v) ==
    [obj EXCEPT !.pcAxes =
        [i \in 1..Len(obj.pcAxes) |->
            IF obj.pcAxes[i] = CanonicalAxis(obj)
            THEN [obj.pcAxes[i] EXCEPT !.eigenValues[3] = v]
            ELSE obj.pcAxes[i]]]

(* The two objects differ at most in the third eigenvalue of their         *)
(* canonical axis.                                                         *)
SameButThird(a, b) ==
    /\ ScannedHitLists(a) = ScannedHitLists(b)
    /\ a.spacePoints = b.spacePoints
    /\ WithThird(a, 0).pcAxes = WithThird(b, 0).pcAxes

(* The projection has run for the current object.                          *)
Projected == pc = "project" \/ (pc = "emit" /\ spIdx > 0)

C20_ThirdEigenvalueUnused ==
    /\ pc = "done" =>
          \A k \in Emitted : \A v \in {0, 1, 4} :
             TagOf(k) = Classify(WithThird(ObjectOf(k), v).pcAxes,
                                 ScannedHitLists(ObjectOf(k)), ObjectOf(k).spacePoints)
    /\ \A j, k \in Emitted :
          SameButThird(ObjectOf(j), ObjectOf(k)) => TagOf(j) = TagOf(k)
    /\ (pc \in {"project", "emit"} /\ ~HasTimedOutHit(pfParticle)
          /\ spacePointVec # <<>> /\ pcAxis.eigenValues[1] > 0) =>
             (Projected <=> pcAxis.eigenValues[2] # 0)

(* Two objects of one event that differ in the third eigenvalue of their   *)
(* axis only have got the same tag, a Geometry_XX.                         *)
C20_Witness ==
    \E j, k \in Emitted :
        /\ CanonicalAxis(ObjectOf(j)).eigenValues[3] # CanonicalAxis(ObjectOf(k)).eigenValues[3]
        /\ SameButThird(ObjectOf(j), ObjectOf(k))
        /\ TagOf(j) = TagOf(k)
        /\ TagOf(j).tag_id = kGeometry_XX

----------------------------------------------------------------------------
(* C21.  When several space points share the minimum (the maximum) arc     *)
(* length, end point 1 (end point 2) is the earliest of them in the order  *)
(* of the space points.                                                    *)

(* The index of the first space point of spv with the arc length of the    *)
(* i-th one.                                                               *)
EarliestWithArcOf(axis, spv, i) ==
    LET arc(k) == Dot(VSub(spv[k], axis.avePosition), axis.eigenVector0)
    IN CHOOSE k \in 1..i : arc(k) = arc(i) /\ \A j \in 1..(k - 1) : arc(j) # arc(i)

(* The i-th space point of spv shares its arc length with another one.     *)
SharesArc(axis, spv, i) ==
    LET arc(k) == Dot(VSub(spv[k], axis.avePosition), axis.eigenVector0)
    IN \E j \in 1..Len(spv) : j # i /\ arc(j) = arc(i)

C21_TiesKeepEarliest ==
    (pc = "emit" /\ BranchRuns(pfParticle)) =>
        LET axis == CanonicalAxis(pfParticle)
            n == Len(spacePointVec)
            arc(i) == Dot(VSub(spacePointVec[i], axis.avePosition), axis.eigenVector0)
        IN \A i \in 1..n :
             SharesArc(axis, spacePointVec, i) =>
               /\ (\A j \in 1..n : arc(i) <= arc(j)) =>
                     trackEndPt1 = spacePointVec[EarliestWithArcOf(axis, spacePointVec, i)]
               /\ (\A j \in 1..n : arc(i) >= arc(j)) =>
                     trackEndPt2 = spacePointVec[EarliestWithArcOf(axis, spacePointVec, i)]

(* The same for arc lengths strictly between the initial values of the     *)
(* search, -9999 and 9999.                                                 *)
C21_TiesKeepEarliestInRange ==
    (pc = "emit" /\ BranchRuns(pfParticle)) =>
        LET axis == CanonicalAxis(pfParticle)
            n == Len(spacePointVec)
            arc(i) == Dot(VSub(spacePointVec[i], axis.avePosition), axis.eigenVector0)
        IN \A i \in 1..n :
             (/\ SharesArc(axis, spacePointVec, i)
              /\ arc(i) > ArcLengthLastInit
              /\ arc(i) < ArcLengthFirstInit) =>
               /\ (\A j \in 1..n : arc(i) <= arc(j)) =>
                     trackEndPt1 = spacePointVec[EarliestWithArcOf(axis, spacePointVec, i)]
               /\ (\A j \in 1..n : arc(i) >= arc(j)) =>
                     trackEndPt2 = spacePointVec[EarliestWithArcOf(axis, spacePointVec, i)]

(* Two distinct space points share the minimum arc length, in range, and   *)
(* end point 1 is the first of them.                                       *)
C21_TieInRangeSeen ==
    /\ pc = "emit"
    /\ BranchRuns(pfParticle)
    /\ Len(spacePointVec) = 2
    /\ spacePointVec[1] # spacePointVec[2]
    /\ SharesArc(CanonicalAxis(pfParticle), spacePointVec, 1)
    /\ trackEndPt1 = spacePointVec[1]
    /\ trackEndPt2 = spacePointVec[1]

(* A space point with the arc length of the current extremal point never   *)
(* replaces it.                                                            *)
C21_EqualNeverReplaces ==
    [][(pc = "project" /\ spIdx' = spIdx + 1) =>
          LET arc == Dot(VSub(spacePointVec[spIdx + 1], pcAxis.avePosition),
                         pcAxis.eigenVector0)
          IN /\ arc = arcLengthToFirstHit => pcAxisStart' = pcAxisStart
             /\ arc = arcLengthToLastHit => pcAxisEnd' = pcAxisEnd]_vars

----------------------------------------------------------------------------
(* C22.  The boundary classification does not depend on which end point is *)
(* the start and which the end: with end point 1 and end point 2 exchanged *)
(* the level, the tag kind and the score are the same.                     *)

(* The boundary decision of lines 296-354 on the end points s and e.       *)
DecisionOn(s, e) ==
    BoundaryDecision(<<NearX(s[1]), NearX(e[1])>>, <<NearY(s[2]), NearY(e[2])>>,
                     <<NearZ(s[3]), NearZ(e[3])>>, 0, kNotTagged)

C22_EndPointExchange ==
    (pc = "emit" /\ BranchRuns(pfParticle)) =>
        LET d == DecisionOn(trackEndPt2, trackEndPt1)
        IN /\ d.isCosmic = isCosmic
           /\ d.tag_id = tag_id
           /\ CosmicScore(d.isCosmic) = CosmicScore(isCosmic)

----------------------------------------------------------------------------
(* C23.  An object whose two end points are near the same face of the      *)
(* detector, with no other proximity, is not classified as entering and    *)
(* exiting: it does not get level 2 or a two-letter tag with score 1.0.    *)

(* Both end points are within the margin of the same face.                 *)
SameFace(s, e) ==
    \/ s[1] < fTPCXBoundary /\ e[1] < fTPCXBoundary
    \/ fDetWidth - s[1] < fTPCXBoundary /\ fDetWidth - e[1] < fTPCXBoundary
    \/ fDetHalfHeight + s[2] < fTPCYBoundary /\ fDetHalfHeight + e[2] < fTPCYBoundary
    \/ fDetHalfHeight - s[2] < fTPCYBoundary /\ fDetHalfHeight - e[2] < fTPCYBoundary
    \/ s[3] < fTPCZBoundary /\ e[3] < fTPCZBoundary
    \/ fDetLength - s[3] < fTPCZBoundary /\ fDetLength - e[3] < fTPCZBoundary

(* The end points are near a face in one dimension only.                   *)
OneDimensionOnly(s, e) ==
    \/ ~nearY(s) /\ ~nearY(e) /\ ~nearZ(s) /\ ~nearZ(e)
    \/ ~nearX(s) /\ ~nearX(e) /\ ~nearZ(s) /\ ~nearZ(e)
    \/ ~nearX(s) /\ ~nearX(e) /\ ~nearY(s) /\ ~nearY(e)

TwoLetterTags ==
    {kGeometry_XX, kGeometry_YY, kGeometry_ZZ, kGeometry_XY, kGeometry_XZ, kGeometry_YZ}

C23_SameSurfaceOneCrossing ==
    (/\ pc = "emit"
     /\ BranchRuns(pfParticle)
     /\ SameFace(trackEndPt1, trackEndPt2)
     /\ OneDimensionOnly(trackEndPt1, trackEndPt2)) =>
        /\ isCosmic # 2
        /\ ~(tag_id \in TwoLetterTags /\ CosmicScore(isCosmic) = 10)

----------------------------------------------------------------------------
(* C24.  Every emitted tag of level 2 (Geometry_XX, _YY, _XY, _XZ, _YZ)    *)
(* belongs to an object whose end point 1 is near an x or a y face: an     *)
(* object whose end point 2 is near an x or a y face while end point 1 is  *)
(* near neither gets no level 2 tag, whatever the z proximity.             *)

LevelTwoTags ==
    {kGeometry_XX, kGeometry_YY, kGeometry_XY, kGeometry_XZ, kGeometry_YZ}

----------------------------------------------------------------------------
(* C25.  Every emitted geometry tag is consistent with the near flags of   *)
(* the end points: Geometry_XX (YY, ZZ) has the X (Y, Z) flag at both end  *)
(* points; Geometry_XY an X flag and a Y flag at some end point;           *)
(* Geometry_XZ an X flag and a Z flag and no Y flag; Geometry_YZ a Y flag  *)
(* and a Z flag and no X flag; Geometry_X, _Y, _Z have the named flag at   *)
(* the one end point that has a flag at all.                               *)

(* The tag tag agrees with the flags x, y, z of the two end points.        *)
TagAgrees(tag, x, y, z) ==
    LET any(i) == x[i] \/ y[i] \/ z[i]
        atOnlyFlagged(f) ==
            /\ any(1) # any(2)
            /\ \A i \in 1..2 : f[i] <=> any(i)
    IN /\ tag = kGeometry_XX => x[1] /\ x[2]
       /\ tag = kGeometry_YY => y[1] /\ y[2]
       /\ tag = kGeometry_ZZ => z[1] /\ z[2]
       /\ tag = kGeometry_XY => (x[1] \/ x[2]) /\ (y[1] \/ y[2])
       /\ tag = kGeometry_XZ => (x[1] \/ x[2]) /\ (z[1] \/ z[2]) /\ ~(y[1] \/ y[2])
       /\ tag = kGeometry_YZ => (y[1] \/ y[2]) /\ (z[1] \/ z[2]) /\ ~(x[1] \/ x[2])
       /\ tag = kGeometry_X => atOnlyFlagged(x)
       /\ tag = kGeometry_Y => atOnlyFlagged(y)
       /\ tag = kGeometry_Z => atOnlyFlagged(z)

C25_TagConsistentWithFlags ==
    /\ \A k \in Emitted :
          LET s == TagOf(k).endPt1
              e == TagOf(k).endPt2
          IN TagAgrees(TagOf(k).tag_id, <<nearX(s), nearX(e)>>,
                       <<nearY(s), nearY(e)>>, <<nearZ(s), nearZ(e)>>)
    /\ pc = "emit" => TagAgrees(tag_id, nBdX, nBdY, nBdZ)

(* A Geometry_YZ tag has been emitted for an object with end point 1 near  *)
(* a y face only and end point 2 near a z face only.                       *)
C25_Witness ==
    \E k \in Emitted :
        /\ TagOf(k).tag_id = kGeometry_YZ
        /\ nearY(TagOf(k).endPt1) /\ ~nearZ(TagOf(k).endPt1)
        /\ nearZ(TagOf(k).endPt2) /\ ~nearY(TagOf(k).endPt2)

----------------------------------------------------------------------------
(* C26.  For every cluster of an object, the hits the timing scan examines *)
(* are the hits of that same cluster, whatever the IDs of the clusters and *)
(* their positions in the cluster collection.                              *)

C26_HitsOfSameCluster ==
    /\ pc = "hits" => hitVec = clusterVec[clusterIdx + 1].hits
    /\ pc = "threw" => ~evt.spacePointAssnValid

(* The same for cluster collections in which the ID of every cluster is    *)
(* its position.                                                           *)
C26_HitsOfSameClusterByPosition ==
    (\A i \in 1..Len(evt.clusters) : evt.clusters[i].ID = i - 1) =>
        C26_HitsOfSameCluster

(* The hits of the second of two clusters with different hits have been    *)
(* recovered, in a collection in which the ID of every cluster is its      *)
(* position.                                                               *)
C26_ByPositionSeen ==
    /\ pc = "hits"
    /\ clusterIdx = 1
    /\ Len(evt.clusters) = 2
    /\ \A i \in 1..2 : evt.clusters[i].ID = i - 1
    /\ evt.clusters[1].hits # evt.clusters[2].hits
    /\ hitVec = evt.clusters[2].hits

----------------------------------------------------------------------------
(* C27.  RecoPulse, with threshold = max(adc_thres, nsigma * ped_rms) +    *)
(* ped_mean, records exactly one pulse per maximal run of consecutive      *)
(* samples >= threshold, in waveform order: t_start is the index of the    *)
(* first sample of the run, t_end the index of its last sample, area the   *)
(* sum of (sample - ped_mean) over the run; a run that reaches the last    *)
(* sample is recorded with t_end the last index; pulses never overlap.     *)

(* The threshold of the waveform, and the maximal runs of samples at or    *)
(* above it, as pairs of the first and the last index (0-based).           *)
ClaimedThreshold ==
    (IF adc_thres >= nsigma * ped_rms THEN adc_thres ELSE nsigma * ped_rms) + ped_mean

MaximalRuns ==
    {r \in (0..(Len(wf) - 1)) \X (0..(Len(wf) - 1)) :
        /\ r[1] <= r[2]
        /\ \A i \in r[1]..r[2] : wf[i + 1] >= ClaimedThreshold
        /\ r[1] = 0 \/ wf[r[1]] < ClaimedThreshold
        /\ r[2] = Len(wf) - 1 \/ wf[r[2] + 2] < ClaimedThreshold}

RECURSIVE AreaOver(_, _)
AreaOver(first, last) ==
    IF first > last THEN 0
    ELSE (wf[last + 1] - ped_mean) + AreaOver(first, last - 1)

----------------------------------------------------------------------------
(* C28.  ExtractCalorimetry sorts the hits of each track into planes so    *)
(* that every hit index of the track appears exactly once, in the list of  *)
(* the hit's own plane, and AnalyzeHit is called exactly once per hit of   *)
(* the track, for any number of planes.                                    *)

(* The number of times x occurs in the sequence s.                         *)
Occurrences(s, x) == Cardinality({k \in 1..Len(s) : s[k] = x})

C28_EachHitOnce ==
    /\ caloPc = "planes" =>
          \A k \in 1..Len(hit_indices_per_track[i_track + 1]) :
             LET i_hit == hit_indices_per_track[i_track + 1][k]
             IN \A p \in 1..Nplanes :
                   Occurrences(hit_indices_per_plane[p], i_hit) =
                      IF p - 1 = hitVector[i_hit + 1] THEN 1 ELSE 0
    /\ caloPc = "done" =>
          \A t \in 1..Len(hit_indices_per_track) :
             \A k \in 1..Len(hit_indices_per_track[t]) :
                Occurrences(analyzed,
                            [track |-> t - 1, hit |-> hit_indices_per_track[t][k]]) = 1

(* What holds instead: every hit index of the track appears in the list of *)
(* its own plane only, once for each plane of the detector, and AnalyzeHit *)
(* is called that many times for it.                                       *)
C28_EachHitOncePerPlane ==
    /\ caloPc = "planes" =>
          \A k \in 1..Len(hit_indices_per_track[i_track + 1]) :
             LET i_hit == hit_indices_per_track[i_track + 1][k]
             IN \A p \in 1..Nplanes :
                   Occurrences(hit_indices_per_plane[p], i_hit) =
                      IF p - 1 = hitVector[i_hit + 1] THEN Nplanes ELSE 0
    /\ caloPc = "done" =>
          \A t \in 1..Len(hit_indices_per_track) :
             \A k \in 1..Len(hit_indices_per_track[t]) :
                Occurrences(analyzed,
                            [track |-> t - 1, hit |-> hit_indices_per_track[t][k]]) = Nplanes

(* ExtractCalorimetry has returned on a detector of three planes and two   *)
(* tracks of one hit each.                                                 *)
C28_ThreePlanesSeen ==
    /\ caloPc = "done"
    /\ Nplanes = 3
    /\ Len(hit_indices_per_track) = 2
    /\ \A t \in 1..2 : Len(hit_indices_per_track[t]) = 1
    /\ Len(analyzed) = 6

----------------------------------------------------------------------------
(* C29.  isVisible(wavelength) is true exactly when the wavelength is on   *)
(* the visible side of the threshold of 200 nm (true for 450 nm, false for *)
(* 128 nm), and depends only on its argument; so in a library build job a  *)
(* detected photon of a VUV wavelength is counted as direct light and one  *)
(* of a visible wavelength as reflected light.                             *)

(* The number of detected photons of TheHit whose wavelength is in W.      *)
Detected(W) ==
    Cardinality({k \in 1..Len(TheHit) : TheHit[k].detected /\ TheHit[k].wavelength \in W})

VUV == {w \in Wavelengths : w < kVisibleThreshold}

Visible == {w \in Wavelengths : w > kVisibleThreshold}

C29_IsVisible ==
    /\ isVisible(fWavelength, kVisibleWavelength)
    /\ ~isVisible(fWavelength, kVUVWavelength)
    /\ \A w \in VUV \cup Visible : isVisible(fWavelength, w) <=> w \in Visible
    /\ \A w \in Wavelengths, m \in Wavelengths :
          isVisible(fWavelength, w) = isVisible(m, w)
    /\ (photonPc = "done" /\ IsBuildJob /\ ~Reflected) =>
          /\ stored[1].nDirectPhotons = Detected(VUV)
          /\ StoreReflected => stored[1].nReflectedPhotons = Detected(Visible)

(* What holds instead: isVisible is true exactly when the member           *)
(* fWavelength is below the threshold, whatever its argument, and in a     *)
(* library build job the detected photons below the threshold are counted  *)
(* as reflected light and the others as direct light.                      *)
C29_IsVisibleReadsMember ==
    /\ \A w \in Wavelengths : isVisible(fWavelength, w) <=> fWavelength < kVisibleThreshold
    /\ (photonPc = "done" /\ IsBuildJob /\ ~Reflected) =>
          /\ StoreReflected =>
                /\ stored[1].nDirectPhotons = Detected(Wavelengths \ VUV)
                /\ stored[1].nReflectedPhotons = Detected(VUV)
          /\ ~StoreReflected =>
                /\ stored[1].nDirectPhotons = Detected(Wavelengths \ VUV)
                /\ stored[1].nReflectedPhotons = 0

(* A library build job has stored the counts of an optical detector with   *)
(* one detected VUV photon and one detected visible photon.                *)
C29_BuildJobSeen ==
    /\ photonPc = "done"
    /\ IsBuildJob /\ ~Reflected /\ StoreReflected
    /\ Len(TheHit) = 2
    /\ TheHit[1] = [wavelength |-> kVUVWavelength, detected |-> TRUE]
    /\ TheHit[2] = [wavelength |-> kVisibleWavelength, detected |-> TRUE]
    /\ stored = <<[nDirectPhotons |-> 1, nReflectedPhotons |-> 1]>>

====
